---------------------------- MODULE Spec2Model ----------------------------
(***************************************************************************)
(* A model of the apollo negotiation / settlement core:                    *)
(*   - the ledger        (src/wallet/mock_wallet.py, MockWallet)           *)
(*   - the single-item auction engine (src/games/auction.py, AuctionGame)  *)
(*   - the agents' fallback policies and the payment-intent validation     *)
(*     (src/agents/auction_agent.py, src/games/auction.py)                 *)
(*   - the tournament engine (src/games/tournament.py, TournamentEngine)   *)
(*   - the payment options of a wallet and the intent validator            *)
(*     (src/wallet/mock_wallet.py, MockWallet and IntentValidator)         *)
(*   - the decisions of the agents, with or without an answer of the model *)
(*     behind them (src/agents/auction_agent.py)                           *)
(*                                                                         *)
(* Token amounts are fixed-point integers: one token is UNIT units, so     *)
(* that every fee of TOKEN_FEES (0.1% .. 0.5%) of a whole number of tokens *)
(* is an exact integer.  USD amounts of the auction are plain integers.    *)
(* The amounts of a payment option are counted in FINE parts of a unit.    *)
(* The tournament's cash is a Python float: it is modelled by binary       *)
(* floats of MantissaBits significant bits, rounded to nearest, ties to    *)
(* even.                                                                   *)
(***************************************************************************)
EXTENDS Integers, Sequences, FiniteSets, TLC

VARIABLES
    \* ---- ledger (MockWallet objects) ----
    balances,        \* wallet -> token -> balance in units
    transactions,    \* wallet -> sequence of Transaction records
    spent_total,     \* wallet -> spent total (units * rate)
    ntx,             \* number of Transaction records created so far (tx ids)
    lastCall,        \* the last execute_payment / transfer call and its outcome
    \* ---- auction (AuctionGame / AuctionState objects) ----
    max_rounds,      \* AuctionGame.max_rounds
    buyers,          \* AuctionGame.buyers, the buyer names in list order
    offers,          \* the amounts the decision makers of this run may name
    status,          \* AuctionState.status
    current_round,   \* AuctionGame.current_round
    current_price,   \* AuctionState.current_price
    highest_bidder,  \* AuctionState.highest_bidder
    bids,            \* AuctionState.bids
    winner,          \* AuctionState.winner
    final_price,     \* AuctionState.final_price
    negotiation_history, \* AuctionState.negotiation_history
    pc,              \* where run_auction stands
    buyer_idx,       \* collect_bids: index of the next buyer to ask
    round_bids,      \* collect_bids: the local list `bids` (indices into bids)
    active_bid,      \* index (into bids) of the bid handed to the seller
    counter_amount,  \* the seller's counter the buyer is to answer
    original_bid,    \* the original_bid argument handed to respond_to_counter
    depth,           \* the depth argument of the _continue recursion
    payments,        \* number of process_payment invocations
    reserve_price,   \* AuctionItem.reserve_price
    max_budget,      \* buyer name -> BuyerAgent.max_budget
    payment_intent,  \* AuctionState.payment_intent
    payment_errors   \* AuctionState.payment_errors (the error types)

VARIABLES
    \* ---- tournament (TournamentEngine / GameState / PlayerState objects) ----
    total_rounds,    \* GameState.total_rounds
    starting_cash,   \* GameState.starting_cash
    enable_negotiation, \* GameState.enable_negotiation
    player_configs,  \* create_game: the names of the players to add
    players,         \* the keys of GameState.players, in insertion order
    cash,            \* player -> PlayerState.cash
    items,           \* player -> PlayerState.items (a list of TournamentItem)
    item_costs,      \* player -> PlayerState.item_costs (item_id -> cost)
    is_active,       \* player -> PlayerState.is_active
    is_bankrupt,     \* player -> PlayerState.is_bankrupt
    bankrupt_round,  \* player -> PlayerState.bankrupt_round
    total_spent,     \* player -> PlayerState.total_spent
    total_items_won, \* player -> PlayerState.total_items_won
    phase,           \* GameState.phase
    game_round,      \* GameState.current_round
    current_item,    \* GameState.current_item
    current_bids,    \* GameState.current_bids
    round_results,   \* GameState.round_results
    total_intent_errors, \* GameState.total_intent_errors
    tpc,             \* where the driver of the engine stands
    ask_idx,         \* run_round: index of the next player to ask for a bid
    ntrades,         \* number of execute_trade calls made so far
    tcall,           \* the last call that returned a value or raised
    final_results    \* what get_final_results returned

VARIABLES
    \* ---- payment options and intent validation (MockWallet, IntentValidator) ----
    declared_budget, \* wallet -> the budget argument MockWallet.create was given
    budget_limit,    \* wallet -> MockWallet.budget_limit (USD * UNIT)
    detected_errors, \* IntentValidator.detected_errors (the error types)
    detected_warnings, \* IntentValidator.detected_warnings (the warning types)
    nvalidations,    \* number of validator calls made so far
    vcall,           \* the last wallet / validator query and what it returned
    \* ---- decision port (SellerAgent / BuyerAgent objects) ----
    dcall            \* the last decision asked of an agent and what came back

walletVars == <<balances, transactions, spent_total, ntx, lastCall>>

auctionVars == <<max_rounds, buyers, offers, status, current_round, current_price,
                 highest_bidder, bids, winner, final_price, negotiation_history,
                 pc, buyer_idx, round_bids, active_bid, counter_amount,
                 original_bid, depth, payments, reserve_price, max_budget,
                 payment_intent, payment_errors>>

paymentVars == <<payments, payment_intent, payment_errors>>

tournamentVars == <<total_rounds, starting_cash, enable_negotiation,
                    player_configs, players, cash, items, item_costs,
                    is_active, is_bankrupt, bankrupt_round, total_spent,
                    total_items_won, phase, game_round, current_item,
                    current_bids, round_results, total_intent_errors, tpc,
                    ask_idx, ntrades, tcall, final_results>>

validatorVars == <<declared_budget, budget_limit, detected_errors,
                   detected_warnings, nvalidations, vcall>>

agentVars == <<dcall>>

vars == <<walletVars, auctionVars, tournamentVars, validatorVars, agentVars>>

None == "none"

\* final_price: Optional[float] = None
NoPrice == -1

-----------------------------------------------------------------------------
(***************************************************************************)
(* LEDGER                                                                  *)
(***************************************************************************)

\* Fixed-point scale: 1 token = UNIT units; a fee of p percent of x units is
\* x * (p * UNIT / 100) / UNIT, and p * UNIT / 100 is an integer for every
\* percentage of TOKEN_FEES.
UNIT == 2000

\* Most successful transfers explored in one run.
MaxTx == 2

Wallets == {"w1", "w2"}

Tokens == {"ETH", "USDC"}

\* Amounts a caller may ask to transfer (units): the agent's number is not
\* validated anywhere before it reaches transfer.
TransferAmounts == {-UNIT, UNIT, 2 * UNIT}

\* Exchange rates get_rate may return (USD per token).
Rates == {1, 3}

\* Initial allocations given to MockWallet.create.
InitialBalances ==
    { [t \in Tokens |-> 0],
      [t \in Tokens |-> IF t = "ETH" THEN 2 * UNIT + 10
                        ELSE IF t = "USDC" THEN UNIT + 1 ELSE 0],
      [t \in Tokens |-> IF t = "ETH" THEN UNIT + 9
                        ELSE IF t = "USDC" THEN 4 * UNIT + 8 ELSE 0] }

\* TOKEN_FEES, as the numerator of the fee over UNIT: 0.5% = 10/2000, ...
\* with TOKEN_FEES.get(token, 0.5) for a token that is not listed.
TOKEN_FEES(token) ==
    CASE token = "ETH"  -> 10
      [] token = "USDC" -> 2
      [] token = "DAI"  -> 3
      [] token = "USDT" -> 4
      [] token = "BTC"  -> 6
      [] OTHER          -> 10

get_balance(w, token) == balances[w][token]

can_afford_ignoring_amount(w, token, amount) == TRUE

can_afford(w, token, amount) == get_balance(w, token) >= amount

fee_never_charged(token, amount, include_fee) == 0

\* fee = amount * (fee_percent / 100) if include_fee else 0
transfer_fee(token, amount, include_fee) ==
    IF include_fee THEN (amount * TOKEN_FEES(token)) \div UNIT ELSE 0

Transaction(id, from, to, token, amount, rate, fee) ==
    [tx_id |-> id, from_wallet |-> from, to_wallet |-> to, token |-> token,
     amount |-> amount, amount_usd |-> amount * rate,
     fee |-> fee, fee_usd |-> fee * rate]

\* MockWallet.transfer: the check, then the two balance updates in the
\* order of the code (the recipient may be the sender itself), spent_total
\* and the record appended to both histories.  lastCall keeps the arguments
\* and whether the call raised ValueError("Insufficient balance ...").
transfer(from, to, token, amount, rate, include_fee) ==
    LET fee          == transfer_fee(token, amount, include_fee)
        total_deduct == amount + fee
        call(ok)     == [from |-> from, to |-> to, token |-> token,
                         amount |-> amount, rate |-> rate,
                         include_fee |-> include_fee, ok |-> ok]
    IN  IF ~can_afford(from, token, total_deduct)
        THEN /\ lastCall' = call(FALSE)
             /\ UNCHANGED <<balances, transactions, spent_total, ntx>>
        ELSE LET tx == Transaction(ntx + 1, from, to, token, amount, rate, fee)
                 b1 == [balances EXCEPT ![from][token] = @ - total_deduct]
                 b2 == [b1 EXCEPT ![to][token] = @ + amount]
                 h1 == [transactions EXCEPT ![from] = Append(@, tx)]
                 h2 == [h1 EXCEPT ![to] = Append(@, tx)]
             IN  /\ balances' = b2
                 /\ spent_total' = [spent_total EXCEPT
                                      ![from] = @ + (amount * rate + fee * rate)]
                 /\ transactions' = h2
                 /\ ntx' = ntx + 1
                 /\ lastCall' = call(TRUE)

NoCall == [from |-> None, to |-> None, token |-> None, amount |-> 0,
           rate |-> 0, include_fee |-> TRUE, ok |-> TRUE]

WalletInit ==
    /\ balances \in [Wallets -> InitialBalances]
    /\ transactions = [w \in Wallets |-> <<>>]
    /\ spent_total = [w \in Wallets |-> 0]
    /\ ntx = 0
    /\ lastCall = NoCall

\* A call of MockWallet.transfer as execute_payment makes it, the only call
\* of the repository: include_fee keeps its default, and the rate is whatever
\* get_rate returns at that moment.
Transfer ==
    /\ ntx < MaxTx
    /\ \E from \in Wallets, to \in Wallets, token \in Tokens,
          amount \in TransferAmounts, rate \in Rates :
          transfer(from, to, token, amount, rate, TRUE)
    /\ UNCHANGED <<auctionVars, tournamentVars, validatorVars, agentVars>>

-----------------------------------------------------------------------------
(***************************************************************************)
(* AUCTION ENGINE                                                          *)
(*                                                                         *)
(* run_auction is one coroutine; it is cut at its Decision Port calls      *)
(* (make_bid, respond_to_bid, respond_to_counter), which are the only      *)
(* places where it waits.  pc names the call it stands before:             *)
(*   start       before start_auction                                      *)
(*   loop        at the while test of run_auction                          *)
(*   collect     in collect_bids, before asking buyers[buyer_idx]          *)
(*   seller      in negotiate, before seller.respond_to_bid                *)
(*   buyer       in _handle_counter_offer, before buyer.respond_to_counter *)
(*   cont        at the head of _continue_negotiation                      *)
(*   buyer_cont  in _handle_counter_offer_continue                         *)
(*   after_loop  after the while loop, before process_payment              *)
(*   done        run_auction has returned                                  *)
(***************************************************************************)

\* Largest max_rounds explored.
MaxRounds == 3

\* "最多3輪談判": the depth at which _continue_negotiation gives up.
MaxDepth == 3

Seller == "seller"

\* The runs explored: a long auction with one buyer and one possible amount,
\* and a one-round auction with several buyers and several amounts.
Configurations ==
    { [max_rounds |-> r, buyers |-> <<"b1">>, offers |-> {2}] : r \in 1..MaxRounds }
    \cup
    { [max_rounds |-> 1, buyers |-> <<"b1", "b2", "b3">>, offers |-> {1, 2}] }

\* item.reserve_price, the initial current_price.
ReservePrice == 1

\* Every name a buyer of a run may carry.
AllBuyers == {"b1", "b2", "b3"}

\* BuyerAgent.__init__(..., max_budget: float = 1000, ...)
DefaultBudget == 1000

\* payment_intent: Optional[dict] = None
NoIntent == [amount_usd |-> NoPrice, recipient |-> None]

Bid(bidder, amount) == [bidder |-> bidder, amount |-> amount, status |-> "pending"]

NegotiationRound(round, action, from, to, amount) ==
    [round_number |-> round, action |-> action, from_agent |-> from,
     to_agent |-> to, amount |-> amount]

\* What a Decision Port may answer to respond_to_bid / respond_to_counter:
\* accept, reject, counter with an amount, or an action the engine does not
\* know (the if / elif chains have no else branch).
Responses ==
    { [action |-> a, amount |-> 0] : a \in {"accept", "reject", "other"} }
    \cup { [action |-> "counter", amount |-> x] : x \in offers }

AuctionInit ==
    /\ \E c \in Configurations :
          /\ max_rounds = c.max_rounds
          /\ buyers = c.buyers
          /\ offers = c.offers
    /\ reserve_price = ReservePrice
    /\ max_budget = [b \in AllBuyers |-> DefaultBudget]
    /\ status = "open"
    /\ current_round = 0
    /\ current_price = ReservePrice
    /\ highest_bidder = None
    /\ bids = <<>>
    /\ winner = None
    /\ final_price = NoPrice
    /\ negotiation_history = <<>>
    /\ pc = "start"
    /\ buyer_idx = 0
    /\ round_bids = <<>>
    /\ active_bid = 0
    /\ counter_amount = 0
    /\ original_bid = 0
    /\ depth = 0
    /\ payments = 0
    /\ payment_intent = NoIntent
    /\ payment_errors = {}

config == <<max_rounds, buyers, offers, reserve_price, max_budget>>

\* start_auction
StartAuction ==
    /\ pc = "start"
    /\ UNCHANGED <<walletVars, tournamentVars, validatorVars, agentVars>>
    /\ status' = "open"
    /\ pc' = "loop"
    /\ UNCHANGED <<config, current_round, current_price, highest_bidder, bids,
                   winner, final_price, negotiation_history, buyer_idx,
                   round_bids, active_bid, counter_amount, original_bid, depth,
                   paymentVars>>

loop_test_until_sold == status # "sold"

\* while self.current_round < self.max_rounds and status != SOLD
\* (the `if status == SOLD: break` that ends the loop body decides the same
\* as this test, evaluated right after it)
loop_test == current_round < max_rounds /\ status # "sold"

\* The loop test holds: current_round += 1 and collect_bids starts.
RoundBegin ==
    /\ pc = "loop"
    /\ UNCHANGED <<walletVars, tournamentVars, validatorVars, agentVars>>
    /\ loop_test
    /\ current_round' = current_round + 1
    /\ buyer_idx' = 1
    /\ round_bids' = <<>>
    /\ pc' = "collect"
    /\ UNCHANGED <<config, status, current_price, highest_bidder, bids, winner,
                   final_price, negotiation_history, active_bid, counter_amount,
                   original_bid, depth, paymentVars>>

\* The loop test fails: the loop is left.
LoopExit ==
    /\ pc = "loop"
    /\ UNCHANGED <<walletVars, tournamentVars, validatorVars, agentVars>>
    /\ ~loop_test
    /\ pc' = "after_loop"
    /\ UNCHANGED <<config, status, current_round, current_price, highest_bidder,
                   bids, winner, final_price, negotiation_history, buyer_idx,
                   round_bids, active_bid, counter_amount, original_bid, depth,
                   paymentVars>>

make_bid_uncapped(buyer_name, amount) == amount

\* make_bid: if result["amount"] > self.max_budget: result["amount"] =
\* self.max_budget (the fallback takes min(..., self.max_budget) as well).
make_bid(buyer_name, amount) ==
    IF amount > max_budget[buyer_name] THEN max_budget[buyer_name] ELSE amount

CollectBid_records_twice ==
    /\ pc = "collect"
    /\ UNCHANGED <<walletVars, tournamentVars, validatorVars, agentVars>>
    /\ buyer_idx <= Len(buyers)
    /\ \/ /\ UNCHANGED <<bids, round_bids>>
       \/ \E amount \in offers :
             LET bid == Bid(buyers[buyer_idx], make_bid(buyers[buyer_idx], amount))
             IN  /\ bids' = bids \o <<bid, bid>>
                 /\ round_bids' = round_bids \o <<Len(bids) + 1, Len(bids) + 2>>
    /\ buyer_idx' = buyer_idx + 1
    /\ UNCHANGED <<config, status, current_round, current_price, highest_bidder,
                   winner, final_price, negotiation_history, pc, active_bid,
                   counter_amount, original_bid, depth, paymentVars>>

\* collect_bids, one pass of its for loop: buyers[buyer_idx] is asked
\* (make_bid) and either abstains or names an amount, which is recorded in
\* the local list and in state.bids.
CollectBid ==
    /\ pc = "collect"
    /\ UNCHANGED <<walletVars, tournamentVars, validatorVars, agentVars>>
    /\ buyer_idx <= Len(buyers)
    /\ \/ /\ UNCHANGED <<bids, round_bids>>
       \/ \E amount \in offers :
             /\ bids' = Append(bids, Bid(buyers[buyer_idx],
                                         make_bid(buyers[buyer_idx], amount)))
             /\ round_bids' = Append(round_bids, Len(bids) + 1)
    /\ buyer_idx' = buyer_idx + 1
    /\ UNCHANGED <<config, status, current_round, current_price, highest_bidder,
                   winner, final_price, negotiation_history, pc, active_bid,
                   counter_amount, original_bid, depth, paymentVars>>

NoBids_advances ==
    /\ pc = "collect"
    /\ UNCHANGED <<walletVars, tournamentVars, validatorVars, agentVars>>
    /\ buyer_idx > Len(buyers)
    /\ round_bids = <<>>
    /\ pc' = "loop"
    /\ UNCHANGED <<config, status, current_round, current_price, highest_bidder,
                   bids, winner, final_price, negotiation_history, buyer_idx,
                   round_bids, active_bid, counter_amount, original_bid, depth,
                   paymentVars>>

NoBids_without_break ==
    /\ pc = "collect"
    /\ UNCHANGED <<walletVars, tournamentVars, validatorVars, agentVars>>
    /\ buyer_idx > Len(buyers)
    /\ round_bids = <<>>
    /\ status' = "cancelled"
    /\ pc' = "loop"
    /\ UNCHANGED <<config, current_round, current_price, highest_bidder, bids,
                   winner, final_price, negotiation_history, buyer_idx,
                   round_bids, active_bid, counter_amount, original_bid, depth,
                   paymentVars>>

\* if not bids: status = CANCELLED; break
NoBids ==
    /\ pc = "collect"
    /\ UNCHANGED <<walletVars, tournamentVars, validatorVars, agentVars>>
    /\ buyer_idx > Len(buyers)
    /\ round_bids = <<>>
    /\ status' = "cancelled"
    /\ pc' = "after_loop"
    /\ UNCHANGED <<config, current_round, current_price, highest_bidder, bids,
                   winner, final_price, negotiation_history, buyer_idx,
                   round_bids, active_bid, counter_amount, original_bid, depth,
                   paymentVars>>

RECURSIVE max_last_from(_, _, _)
max_last_from(idxs, i, best) ==
    IF i > Len(idxs) THEN best
    ELSE max_last_from(idxs, i + 1,
                  IF bids[idxs[i]].amount >= bids[best].amount THEN idxs[i] ELSE best)

RECURSIVE max_from(_, _, _)
\* Python's max(bids, key=lambda b: b.amount): a left-to-right scan that
\* replaces the candidate only by a strictly larger key.
max_from(idxs, i, best) ==
    IF i > Len(idxs) THEN best
    ELSE max_from(idxs, i + 1,
                  IF bids[idxs[i]].amount > bids[best].amount THEN idxs[i] ELSE best)

highest_bid_last_wins(idxs) == max_last_from(idxs, 2, idxs[1])

highest_bid(idxs) == max_from(idxs, 2, idxs[1])

\* highest_bid = max(bids, ...); current_price, highest_bidder; then negotiate
\* up to its first await: status = NEGOTIATING.
SelectHighest ==
    /\ pc = "collect"
    /\ UNCHANGED <<walletVars, tournamentVars, validatorVars, agentVars>>
    /\ buyer_idx > Len(buyers)
    /\ round_bids # <<>>
    /\ LET h == highest_bid(round_bids)
       IN  /\ current_price' = bids[h].amount
           /\ highest_bidder' = bids[h].bidder
           /\ active_bid' = h
    /\ status' = "negotiating"
    /\ pc' = "seller"
    /\ UNCHANGED <<config, current_round, bids, winner, final_price,
                   negotiation_history, buyer_idx, round_bids, counter_amount,
                   original_bid, depth, paymentVars>>

\* The seller's answer to the bid at index b, as negotiate and
\* _continue_negotiation apply it: the transcript entry, then the branch.
\* A counter hands over to the buyer at `next_pc` with `orig` as the
\* original_bid argument and depth `d`.
seller_accepts_first_bidder(b, r) ==
    /\ bids' = [bids EXCEPT ![b].status = "accepted"]
    /\ winner' = bids[1].bidder
    /\ final_price' = bids[b].amount
    /\ status' = "sold"

seller_accepts_at_current_price(b, r) ==
    /\ bids' = [bids EXCEPT ![b].status = "accepted"]
    /\ winner' = bids[b].bidder
    /\ final_price' = current_price
    /\ status' = "sold"

\* bid.status = ACCEPTED; winner = bid.bidder; final_price = bid.amount;
\* status = SOLD
seller_accepts(b, r) ==
    /\ bids' = [bids EXCEPT ![b].status = "accepted"]
    /\ winner' = bids[b].bidder
    /\ final_price' = bids[b].amount
    /\ status' = "sold"

seller_response(b, r, next_pc, orig, d) ==
    /\ negotiation_history' = Append(negotiation_history,
          NegotiationRound(current_round, r.action, Seller, bids[b].bidder,
                           IF r.action = "counter" THEN r.amount ELSE bids[b].amount))
    /\ \/ /\ r.action = "accept"
          /\ seller_accepts(b, r)
          /\ pc' = "loop"
          /\ UNCHANGED <<counter_amount, original_bid, depth>>
       \/ /\ r.action = "reject"
          /\ bids' = [bids EXCEPT ![b].status = "rejected"]
          /\ pc' = "loop"
          /\ UNCHANGED <<winner, final_price, status, counter_amount,
                         original_bid, depth>>
       \/ /\ r.action = "counter"
          /\ bids' = [bids EXCEPT ![b].status = "countered"]
          /\ counter_amount' = r.amount
          /\ original_bid' = orig
          /\ depth' = d
          /\ pc' = next_pc
          /\ UNCHANGED <<winner, final_price, status>>
       \/ /\ r.action = "other"
          /\ pc' = "loop"
          /\ UNCHANGED <<bids, winner, final_price, status, counter_amount,
                         original_bid, depth>>

\* negotiate, from seller.respond_to_bid on.  _handle_counter_offer passes
\* original_bid = self.state.bids[-1].amount.
SellerRespond ==
    /\ pc = "seller"
    /\ UNCHANGED <<walletVars, tournamentVars, validatorVars, agentVars>>
    /\ \E r \in Responses :
          seller_response(active_bid, r, "buyer", bids[Len(bids)].amount, 0)
    /\ UNCHANGED <<config, current_round, current_price, highest_bidder,
                   buyer_idx, round_bids, active_bid, paymentVars>>

buyer_accepts_at_bid_amount(buyer_name) ==
    /\ winner' = buyer_name
    /\ final_price' = bids[active_bid].amount
    /\ status' = "sold"

\* winner = buyer_name; final_price = counter_amount; status = SOLD
buyer_accepts(buyer_name) ==
    /\ winner' = buyer_name
    /\ final_price' = counter_amount
    /\ status' = "sold"

buyer_response_rebid_in_place(buyer_name, r, d) ==
    /\ negotiation_history' = Append(negotiation_history,
          NegotiationRound(current_round, r.action, buyer_name, Seller,
                           IF r.action = "counter" THEN r.amount ELSE counter_amount))
    /\ \/ /\ r.action = "accept"
          /\ buyer_accepts(buyer_name)
          /\ pc' = "loop"
          /\ UNCHANGED <<bids, active_bid, depth>>
       \/ /\ r.action \in {"reject", "other"}
          /\ pc' = "loop"
          /\ UNCHANGED <<bids, active_bid, depth, winner, final_price, status>>
       \/ /\ r.action = "counter"
          /\ bids' = [bids EXCEPT ![active_bid] = Bid(buyer_name, r.amount)]
          /\ active_bid' = active_bid
          /\ depth' = d
          /\ pc' = "cont"
          /\ UNCHANGED <<winner, final_price, status>>

\* The buyer's answer to a counter, as _handle_counter_offer and
\* _handle_counter_offer_continue apply it; a re-bid is a new Bid appended to
\* state.bids, taken to _continue_negotiation with depth `d`.
buyer_response(buyer_name, r, d) ==
    /\ negotiation_history' = Append(negotiation_history,
          NegotiationRound(current_round, r.action, buyer_name, Seller,
                           IF r.action = "counter" THEN r.amount ELSE counter_amount))
    /\ \/ /\ r.action = "accept"
          /\ buyer_accepts(buyer_name)
          /\ pc' = "loop"
          /\ UNCHANGED <<bids, active_bid, depth>>
       \/ /\ r.action \in {"reject", "other"}
          /\ pc' = "loop"
          /\ UNCHANGED <<bids, active_bid, depth, winner, final_price, status>>
       \/ /\ r.action = "counter"
          /\ bids' = Append(bids, Bid(buyer_name, r.amount))
          /\ active_bid' = Len(bids) + 1
          /\ depth' = d
          /\ pc' = "cont"
          /\ UNCHANGED <<winner, final_price, status>>

\* _handle_counter_offer(bid.bidder, counter_amount): the buyer of that name
\* is looked up in self.buyers (every bidder is one of them).
BuyerRespond ==
    /\ pc = "buyer"
    /\ UNCHANGED <<walletVars, tournamentVars, validatorVars, agentVars>>
    /\ \E i \in 1..Len(buyers) :
          /\ buyers[i] = bids[active_bid].bidder
          /\ \E r \in Responses : buyer_response(buyers[i], r, 0)
    /\ UNCHANGED <<config, current_round, current_price, highest_bidder,
                   buyer_idx, round_bids, counter_amount, original_bid, paymentVars>>

depth_limit_never_reached == FALSE

\* if depth >= 3: return
depth_limit_reached == depth >= MaxDepth

\* _continue_negotiation gives up: the round's negotiation ends.
ContinueLimit ==
    /\ pc = "cont"
    /\ UNCHANGED <<walletVars, tournamentVars, validatorVars, agentVars>>
    /\ depth_limit_reached
    /\ pc' = "loop"
    /\ UNCHANGED <<config, status, current_round, current_price, highest_bidder,
                   bids, winner, final_price, negotiation_history, buyer_idx,
                   round_bids, active_bid, counter_amount, original_bid, depth,
                   paymentVars>>

\* _continue_negotiation(bid, depth) below the limit (and not SOLD, which it
\* never is here): the seller answers the re-bid; a counter goes to
\* _handle_counter_offer_continue(bid.bidder, counter_amount, bid.amount,
\* depth + 1).
SellerRespondContinue ==
    /\ pc = "cont"
    /\ UNCHANGED <<walletVars, tournamentVars, validatorVars, agentVars>>
    /\ ~depth_limit_reached
    /\ status # "sold"
    /\ \E r \in Responses :
          seller_response(active_bid, r, "buyer_cont", bids[active_bid].amount,
                          depth + 1)
    /\ UNCHANGED <<config, current_round, current_price, highest_bidder,
                   buyer_idx, round_bids, active_bid, paymentVars>>

\* _handle_counter_offer_continue: the buyer answers; a re-bid goes back to
\* _continue_negotiation(new_bid, depth) with the depth it was given.
BuyerRespondContinue ==
    /\ pc = "buyer_cont"
    /\ UNCHANGED <<walletVars, tournamentVars, validatorVars, agentVars>>
    /\ status # "sold"
    /\ \E i \in 1..Len(buyers) :
          /\ buyers[i] = bids[active_bid].bidder
          /\ \E r \in Responses : buyer_response(buyers[i], r, depth)
    /\ UNCHANGED <<config, current_round, current_price, highest_bidder,
                   buyer_idx, round_bids, counter_amount, original_bid, paymentVars>>

\* What create_payment_intent may hand back for a price: the price itself
\* (the fallback, and the default for a missing amount_usd) or an amount the
\* Decision Port made up, here the amounts on either side of the tolerance.
IntentAmounts(price) ==
    LET t == (price * 5) \div 100
    IN  {price, price - t, price + t, price - t - 1, price + t + 1}

\* ... and the recipient it may name: the seller (the fallback, and the
\* default for a missing recipient) or somebody else.
Recipients == {Seller, "mallory"}

amount_mismatch_one_percent(actual_usd, expected_amount) ==
    LET diff == IF actual_usd >= expected_amount THEN actual_usd - expected_amount
                ELSE expected_amount - actual_usd
    IN  100 * diff > expected_amount

\* abs(actual_usd - expected_amount) > expected_amount * 0.05
amount_mismatch(actual_usd, expected_amount) ==
    LET diff == IF actual_usd >= expected_amount THEN actual_usd - expected_amount
                ELSE expected_amount - actual_usd
    IN  100 * diff > 5 * expected_amount

\* _validate_payment_intent: the types of the errors it returns.
validate_payment_intent(intent, expected_amount) ==
    (IF amount_mismatch(intent.amount_usd, expected_amount)
     THEN {"AMOUNT_MISMATCH"} ELSE {})
    \cup
    (IF intent.recipient # Seller THEN {"WRONG_RECIPIENT"} ELSE {})

\* process_payment for a sold auction (the winner is one of self.buyers):
\* the intent is stored, and the errors are stored when there are any.
process_payment(intent) ==
    LET errors == validate_payment_intent(intent, final_price)
    IN  /\ payment_intent' = intent
        /\ payment_errors' = IF errors # {} THEN errors ELSE payment_errors

\* After the loop: process_payment runs iff the status is SOLD, and
\* run_auction returns.
AfterLoop ==
    /\ pc = "after_loop"
    /\ UNCHANGED <<walletVars, tournamentVars, validatorVars, agentVars>>
    /\ IF status = "sold"
       THEN /\ payments' = payments + 1
            /\ \E a \in IntentAmounts(final_price), r \in Recipients :
                  process_payment([amount_usd |-> a, recipient |-> r])
       ELSE UNCHANGED paymentVars
    /\ pc' = "done"
    /\ UNCHANGED <<config, status, current_round, current_price, highest_bidder,
                   bids, winner, final_price, negotiation_history, buyer_idx,
                   round_bids, active_bid, counter_amount, original_bid, depth>>

-----------------------------------------------------------------------------
(***************************************************************************)
(* FALLBACK POLICIES                                                       *)
(*                                                                         *)
(* respond_to_bid and respond_to_counter answer with the fallback policy   *)
(* when the agent has no model behind it or the call to it fails.  Amounts *)
(* of these runs are in cents, so that round(x, 2) is a rounding to a      *)
(* whole number.                                                           *)
(***************************************************************************)

\* Reserve price of the fallback runs: $100.00.
FallbackReserve == 10000

\* The runs explored: two buyers whose budgets lie on either side of the
\* reserve, bids below, inside and above the band the seller counters.
FallbackConfigurations ==
    { [max_rounds |-> r, buyers |-> <<"b1", "b2">>,
       offers |-> {8500, 9000, 9500, 10000, 11000},
       max_budget |-> [b \in AllBuyers |->
                          IF b = "b1" THEN m1 ELSE IF b = "b2" THEN m2
                          ELSE DefaultBudget]] :
      r \in {1, 2}, m1 \in {9990, 10000}, m2 \in {9700, 12000} }

fallback_respond_to_bid_counters_at_bid(amount, reserve) ==
    IF amount >= reserve THEN [action |-> "accept", amount |-> 0]
    ELSE IF 10 * amount >= 9 * reserve THEN [action |-> "counter", amount |-> amount]
    ELSE [action |-> "reject", amount |-> 0]

\* SellerAgent._fallback_respond_to_bid; reserve_price * 0.9 is compared in
\* tenths.
fallback_respond_to_bid(amount, reserve) ==
    IF amount >= reserve THEN [action |-> "accept", amount |-> 0]
    ELSE IF 10 * amount >= 9 * reserve THEN [action |-> "counter", amount |-> reserve]
    ELSE [action |-> "reject", amount |-> 0]

\* round(middle, 2) for middle = twice / 2 cents: exact for a whole number
\* of cents; half a cent goes to one of the two neighbours, whichever the
\* binary representation of the quotient is nearer to.
round_half(twice) ==
    IF twice % 2 = 0 THEN {twice \div 2} ELSE {twice \div 2, twice \div 2 + 1}

\* BuyerAgent._fallback_respond_to_counter: the answers it may give.
fallback_respond_to_counter(counter, orig, budget) ==
    IF counter <= budget THEN {[action |-> "accept", amount |-> 0]}
    ELSE IF orig + counter <= 2 * budget
         THEN {[action |-> "counter", amount |-> m] : m \in round_half(orig + counter)}
         ELSE {[action |-> "reject", amount |-> 0]}

FallbackInit ==
    /\ \E c \in FallbackConfigurations :
          /\ max_rounds = c.max_rounds
          /\ buyers = c.buyers
          /\ offers = c.offers
          /\ max_budget = c.max_budget
    /\ reserve_price = FallbackReserve
    /\ status = "open"
    /\ current_round = 0
    /\ current_price = FallbackReserve
    /\ highest_bidder = None
    /\ bids = <<>>
    /\ winner = None
    /\ final_price = NoPrice
    /\ negotiation_history = <<>>
    /\ pc = "start"
    /\ buyer_idx = 0
    /\ round_bids = <<>>
    /\ active_bid = 0
    /\ counter_amount = 0
    /\ original_bid = 0
    /\ depth = 0
    /\ payments = 0
    /\ payment_intent = NoIntent
    /\ payment_errors = {}

\* negotiate with the fallback seller.
FallbackSellerRespond ==
    /\ pc = "seller"
    /\ UNCHANGED <<walletVars, tournamentVars, validatorVars, agentVars>>
    /\ seller_response(active_bid,
                       fallback_respond_to_bid(bids[active_bid].amount, reserve_price),
                       "buyer", bids[Len(bids)].amount, 0)
    /\ UNCHANGED <<config, current_round, current_price, highest_bidder,
                   buyer_idx, round_bids, active_bid, paymentVars>>

\* _handle_counter_offer with the fallback buyer.
FallbackBuyerRespond ==
    /\ pc = "buyer"
    /\ UNCHANGED <<walletVars, tournamentVars, validatorVars, agentVars>>
    /\ \E i \in 1..Len(buyers) :
          /\ buyers[i] = bids[active_bid].bidder
          /\ \E r \in fallback_respond_to_counter(counter_amount, original_bid,
                                                  max_budget[buyers[i]]) :
                buyer_response(buyers[i], r, 0)
    /\ UNCHANGED <<config, current_round, current_price, highest_bidder,
                   buyer_idx, round_bids, counter_amount, original_bid, paymentVars>>

\* _continue_negotiation below the limit with the fallback seller.
FallbackSellerRespondContinue ==
    /\ pc = "cont"
    /\ UNCHANGED <<walletVars, tournamentVars, validatorVars, agentVars>>
    /\ ~depth_limit_reached
    /\ status # "sold"
    /\ seller_response(active_bid,
                       fallback_respond_to_bid(bids[active_bid].amount, reserve_price),
                       "buyer_cont", bids[active_bid].amount, depth + 1)
    /\ UNCHANGED <<config, current_round, current_price, highest_bidder,
                   buyer_idx, round_bids, active_bid, paymentVars>>

\* _handle_counter_offer_continue with the fallback buyer.
FallbackBuyerRespondContinue ==
    /\ pc = "buyer_cont"
    /\ UNCHANGED <<walletVars, tournamentVars, validatorVars, agentVars>>
    /\ status # "sold"
    /\ \E i \in 1..Len(buyers) :
          /\ buyers[i] = bids[active_bid].bidder
          /\ \E r \in fallback_respond_to_counter(counter_amount, original_bid,
                                                  max_budget[buyers[i]]) :
                buyer_response(buyers[i], r, depth)
    /\ UNCHANGED <<config, current_round, current_price, highest_bidder,
                   buyer_idx, round_bids, counter_amount, original_bid, paymentVars>>

-----------------------------------------------------------------------------
(***************************************************************************)
(* TOURNAMENT ENGINE                                                       *)
(*                                                                         *)
(* The engine (src/games/tournament.py, TournamentEngine) as its driver    *)
(* (src/web/tournament_app.py) calls it: players are added in the lobby,   *)
(* start_game opens round 1, every round asks the players for bids in      *)
(* order, settles with end_auction_round, may execute trades, and moves on *)
(* with next_round until the game is over; get_final_results closes it.    *)
(* tpc names the driver's position:                                        *)
(*   lobby    before start_game                                            *)
(*   bids     in run_round, before asking players[ask_idx]                 *)
(*   settled  after end_auction_round, before next_round                   *)
(*   over     next_round has ended the game (a further call may follow)    *)
(*   done     get_final_results has returned                               *)
(*                                                                         *)
(* cash, bids, costs and values are Python floats.  The model keeps their  *)
(* arithmetic: numbers are binary floating-point numbers with MantissaBits *)
(* significant bits (the program's have 53) and every sum or difference is *)
(* rounded to the nearest such number, ties to even.  Event logs, texts    *)
(* and timestamps are not modelled.                                        *)
(***************************************************************************)

\* Significant bits of a float of the model.
MantissaBits == 3

\* Largest total_rounds explored.
MaxTotalRounds == 2

\* Largest number of execute_trade calls in a game.
MaxTrades == 2

AllPlayers == {"p1", "p2", "p3"}

\* The starting_cash of the games explored.
StartingCash == 7

\* The games explored: games of two players with trades, games of three
\* players without, and games that lack players.
TournamentConfigurations ==
    { [player_configs |-> <<"p1", "p2">>, total_rounds |-> r,
       enable_negotiation |-> TRUE] : r \in 1..MaxTotalRounds }
    \cup
    { [player_configs |-> <<"p1", "p2", "p3">>, total_rounds |-> r,
       enable_negotiation |-> FALSE] : r \in 1..MaxTotalRounds }
    \cup
    { [player_configs |-> c, total_rounds |-> 1, enable_negotiation |-> TRUE] :
      c \in {<<>>, <<"p1">>} }

\* The amounts a player may bid.
BidAmounts == {1, 7}

\* The items a round may draw: one whose estimate the bids may exceed by
\* more than half and that is worth more than it seems, and one whose
\* estimate covers every bid and that is worth less.
ItemPool == {[estimate_high |-> 2, true_value |-> 6],
             [estimate_high |-> 6, true_value |-> 1]}

\* No item id (None) and no item (None).
NoItemId == 0

TournamentItem(item_id, estimate_high, true_value) ==
    [item_id |-> item_id, estimate_high |-> estimate_high, true_value |-> true_value]

NoItem == TournamentItem(NoItemId, 0, 0)

\* The offers execute_trade is given: details of a NegotiationOffer.
Offers ==
    { [offer_item_id |-> i[1], request_item_id |-> i[2], cash_offer |-> c[1],
       cash_request |-> c[2]] :
      i \in {<<NoItemId, NoItemId>>, <<1, NoItemId>>, <<1, 2>>},
      c \in {<<0, 7>>, <<2, 2>>} }

\* The pairs of players execute_trade is called for.
TradePairs == {<<"p1", "p2">>, <<"p2", "p1">>}

RECURSIVE ulp(_, _)
\* The spacing of the floats around a >= 0: the least power of two u (from
\* `u` on) with a < 2^MantissaBits * u.
ulp(a, u) == IF a < (2 ^ MantissaBits) * u THEN u ELSE ulp(a, 2 * u)

\* x rounded to the nearest float, ties to the even mantissa.
fl(x) ==
    LET a == IF x < 0 THEN -x ELSE x
        u == ulp(a, 1)
        q == a \div u
        r == a % u
        m == IF 2 * r < u THEN q
             ELSE IF 2 * r > u THEN q + 1
             ELSE IF q % 2 = 0 THEN q ELSE q + 1
    IN  IF x < 0 THEN -(m * u) ELSE m * u

\* Python's float + and -.
fadd(x, y) == fl(x + y)

fsub(x, y) == fl(x - y)

\* dict operations on item_costs.
EmptyDict == [k \in {} |-> 0]

dict_set(d, k, v) == [i \in (DOMAIN d) \cup {k} |-> IF i = k THEN v ELSE d[i]]

dict_pop(d, k) == [i \in (DOMAIN d) \ {k} |-> d[i]]

\* list.remove(x): the list without its first element equal to x.
list_remove(l, x) ==
    LET i == CHOOSE j \in 1..Len(l) :
                 l[j] = x /\ \A k \in 1..(j - 1) : l[k] # x
    IN  [j \in 1..(Len(l) - 1) |-> IF j < i THEN l[j] ELSE l[j + 1]]

Registered == {players[i] : i \in 1..Len(players)}

NoTradeOffer == [offer_item_id |-> NoItemId, request_item_id |-> NoItemId,
                 cash_offer |-> 0, cash_request |-> 0]

\* The state of the players' holdings, as a call finds it.
Holdings == [cash |-> cash, items |-> items, item_costs |-> item_costs]

\* A call of the engine and how it ended: ok is FALSE when it raised or
\* returned False; pre and was are the holdings and the phase it found.
Call(op, from, to, amount, offer, ok) ==
    [op |-> op, from |-> from, to |-> to, amount |-> amount, offer |-> offer,
     ok |-> ok, pre |-> Holdings, was |-> phase]

NoEngineCall ==
    [op |-> None, from |-> None, to |-> None, amount |-> 0,
     offer |-> NoTradeOffer, ok |-> TRUE,
     pre |-> [cash |-> [p \in AllPlayers |-> 0],
              items |-> [p \in AllPlayers |-> <<>>],
              item_costs |-> [p \in AllPlayers |-> EmptyDict]],
     was |-> "lobby"]

NoResults == [winner |-> None, leaderboard |-> <<>>]

\* TournamentEngine(total_rounds, starting_cash): an empty game in the lobby.
TournamentInit ==
    /\ \E c \in TournamentConfigurations :
          /\ player_configs = c.player_configs
          /\ total_rounds = c.total_rounds
          /\ enable_negotiation = c.enable_negotiation
    /\ starting_cash = StartingCash
    /\ players = <<>>
    /\ cash = [p \in AllPlayers |-> 0]
    /\ items = [p \in AllPlayers |-> <<>>]
    /\ item_costs = [p \in AllPlayers |-> EmptyDict]
    /\ is_active = [p \in AllPlayers |-> TRUE]
    /\ is_bankrupt = [p \in AllPlayers |-> FALSE]
    /\ bankrupt_round = [p \in AllPlayers |-> -1]
    /\ total_spent = [p \in AllPlayers |-> 0]
    /\ total_items_won = [p \in AllPlayers |-> 0]
    /\ phase = "lobby"
    /\ game_round = 0
    /\ current_item = NoItem
    /\ current_bids = <<>>
    /\ round_results = <<>>
    /\ total_intent_errors = 0
    /\ tpc = "lobby"
    /\ ask_idx = 0
    /\ ntrades = 0
    /\ tcall = NoEngineCall
    /\ final_results = NoResults

playerVars == <<cash, items, item_costs, is_active, is_bankrupt, bankrupt_round,
                total_spent, total_items_won>>

gameConfig == <<total_rounds, starting_cash, enable_negotiation, player_configs>>

\* create_game, one pass of its for loop: add_player for the next name, who
\* joins with the starting cash.
AddPlayer ==
    /\ tpc = "lobby"
    /\ UNCHANGED <<walletVars, auctionVars, validatorVars, agentVars>>
    /\ Len(players) < Len(player_configs)
    /\ LET p == player_configs[Len(players) + 1]
       IN  /\ players' = Append(players, p)
           /\ cash' = [cash EXCEPT ![p] = starting_cash]
    /\ UNCHANGED <<gameConfig, items, item_costs, is_active, is_bankrupt,
                   bankrupt_round, total_spent, total_items_won, phase,
                   game_round, current_item, current_bids, round_results,
                   total_intent_errors, tpc, ask_idx, ntrades, tcall,
                   final_results>>

\* _generate_round_item for round r: the item drawn, and no bids.
generate_round_item(r) ==
    /\ \E d \in ItemPool :
          current_item' = TournamentItem(r, d.estimate_high, d.true_value)
    /\ current_bids' = <<>>

start_game_with_any_number_of_players == FALSE

\* if len(self.state.players) < 2: raise ValueError
start_game_raises == Len(players) < 2

\* start_game: raises before it touches anything, or opens round 1.
StartGame ==
    /\ tpc = "lobby"
    /\ UNCHANGED <<walletVars, auctionVars, validatorVars, agentVars>>
    /\ Len(players) = Len(player_configs)
    /\ IF start_game_raises
       THEN /\ tcall' = Call("start_game", None, None, 0, NoTradeOffer, FALSE)
            /\ UNCHANGED <<phase, game_round, current_item, current_bids, tpc,
                           ask_idx>>
       ELSE /\ tcall' = Call("start_game", None, None, 0, NoTradeOffer, TRUE)
            /\ phase' = "auction"
            /\ game_round' = 1
            /\ generate_round_item(1)
            /\ tpc' = "bids"
            /\ ask_idx' = 1
    /\ UNCHANGED <<gameConfig, players, playerVars, round_results,
                   total_intent_errors, ntrades, final_results>>

\* run_round: the player asked makes no bid (no call of the engine).
Pass ==
    /\ tpc = "bids"
    /\ UNCHANGED <<walletVars, auctionVars, validatorVars, agentVars>>
    /\ ask_idx <= Len(players)
    /\ ask_idx' = ask_idx + 1
    /\ UNCHANGED <<gameConfig, players, playerVars, phase, game_round,
                   current_item, current_bids, round_results,
                   total_intent_errors, tpc, ntrades, tcall, final_results>>

validate_bid_budget_only(p, amount, item) ==
    IF amount > cash[p] THEN {"budget_exceed"} ELSE {}

\* _validate_bid: the types of the errors; estimate_high * 1.5 is compared
\* in halves.
validate_bid(p, amount, item) ==
    (IF amount > cash[p] THEN {"budget_exceed"} ELSE {})
    \cup
    (IF 2 * amount > 3 * item.estimate_high THEN {"overpay"} ELSE {})

\* Bid(...) with the result submit_bid gives it before _update_bid_results.
TournamentBid(p, amount, errors) ==
    [player_id |-> p, amount |-> amount, intent_errors |-> errors,
     result |-> IF errors # {} THEN "invalid" ELSE "winning"]

every_bid(bs) == [i \in 1..Len(bs) |-> i]

\* [b for b in bids if b.result != BidResult.INVALID], as the indices of
\* these bids in list order.
valid_bids(bs) == SelectSeq([i \in 1..Len(bs) |-> i], LAMBDA i : bs[i].result # "invalid")

RECURSIVE max_bid_from(_, _, _, _)
\* max(valid_bids, key=lambda b: b.amount), as a scan from the left.
max_bid_from(bs, idxs, i, best) ==
    IF i > Len(idxs) THEN best
    ELSE max_bid_from(bs, idxs, i + 1,
                      IF bs[idxs[i]].amount > bs[best].amount THEN idxs[i] ELSE best)

\* The index of the highest valid bid of bs (there is a valid bid).
max_bid(bs) == max_bid_from(bs, valid_bids(bs), 2, valid_bids(bs)[1])

update_bid_results_not_run(bs) == bs

\* _update_bid_results
update_bid_results(bs) ==
    IF valid_bids(bs) = <<>> THEN bs
    ELSE [i \in 1..Len(bs) |->
             IF bs[i].result = "invalid" THEN bs[i]
             ELSE [bs[i] EXCEPT !.result =
                      IF i = max_bid(bs) THEN "winning" ELSE "outbid"]]

\* submit_bid(player_id, amount): raises for a player who is not active;
\* otherwise the bid is validated, recorded and the results are updated.
SubmitBid ==
    /\ tpc = "bids"
    /\ UNCHANGED <<walletVars, auctionVars, validatorVars, agentVars>>
    /\ ask_idx <= Len(players)
    /\ \E amount \in BidAmounts :
          LET p == players[ask_idx]
              errors == validate_bid(p, amount, current_item)
          IN  IF ~is_active[p]
              THEN /\ tcall' = Call("submit_bid", p, None, amount, NoTradeOffer, FALSE)
                   /\ UNCHANGED <<current_bids, total_intent_errors>>
              ELSE /\ tcall' = Call("submit_bid", p, None, amount, NoTradeOffer, TRUE)
                   /\ current_bids' = update_bid_results(
                          Append(current_bids, TournamentBid(p, amount, errors)))
                   /\ total_intent_errors' = total_intent_errors + Cardinality(errors)
    /\ ask_idx' = ask_idx + 1
    /\ UNCHANGED <<gameConfig, players, playerVars, phase, game_round,
                   current_item, round_results, tpc, ntrades, final_results>>

RoundResult(round_num, item, winner_name, winning_bid) ==
    [round_num |-> round_num, item |-> item, winner |-> winner_name,
     winning_bid |-> winning_bid]

\* _check_bankruptcies, for player p with cash c: is p declared bankrupt?
check_bankruptcies(c, p) == is_active[p] /\ c <= 0

\* end_auction_round, what it does to the engine's state: the highest valid
\* bid of current_bids, if there is one, is charged and the current item
\* awarded; the round's result is recorded.  It tests neither the phase nor
\* whether the round has been settled before.
end_auction_round ==
    /\ IF valid_bids(current_bids) # <<>>
       THEN LET b == current_bids[max_bid(current_bids)]
                w == b.player_id
                c == [cash EXCEPT ![w] = fsub(cash[w], b.amount)]
                gone == {p \in Registered : check_bankruptcies(c[p], p)}
            IN  /\ cash' = c
                /\ total_spent' = [total_spent EXCEPT ![w] = fadd(@, b.amount)]
                /\ items' = [items EXCEPT ![w] = Append(@, current_item)]
                /\ item_costs' = [item_costs EXCEPT
                                     ![w] = dict_set(@, current_item.item_id, b.amount)]
                /\ total_items_won' = [total_items_won EXCEPT ![w] = @ + 1]
                /\ is_bankrupt' = [p \in AllPlayers |-> is_bankrupt[p] \/ p \in gone]
                /\ is_active' = [p \in AllPlayers |-> is_active[p] /\ p \notin gone]
                /\ bankrupt_round' = [p \in AllPlayers |->
                                         IF p \in gone THEN game_round
                                         ELSE bankrupt_round[p]]
                /\ round_results' = Append(round_results,
                                       RoundResult(game_round, current_item, w, b.amount))
       ELSE /\ round_results' = Append(round_results,
                                   RoundResult(game_round, current_item, None, NoPrice))
            /\ UNCHANGED playerVars
    /\ tcall' = Call("end_auction_round", None, None, 0, NoTradeOffer, TRUE)

\* run_round: every player has been asked, end_auction_round settles the
\* round.
EndAuctionRound ==
    /\ tpc = "bids"
    /\ UNCHANGED <<walletVars, auctionVars, validatorVars, agentVars>>
    /\ ask_idx > Len(players)
    /\ end_auction_round
    /\ tpc' = "settled"
    /\ UNCHANGED <<gameConfig, players, phase, game_round, current_item,
                   current_bids, total_intent_errors, ask_idx, ntrades,
                   final_results>>

\* Largest number of end_auction_round calls for rounds settled before.
MaxResettlements == 1

\* end_auction_round called once more, for a round that is settled already
\* (the engine accepts its calls in any order).
EndAuctionRoundAgain ==
    /\ tpc \in {"settled", "over"}
    /\ UNCHANGED <<walletVars, auctionVars, validatorVars, agentVars>>
    /\ Len(round_results) < game_round + MaxResettlements
    /\ end_auction_round
    /\ UNCHANGED <<gameConfig, players, phase, game_round, current_item,
                   current_bids, total_intent_errors, tpc, ask_idx, ntrades,
                   final_results>>

\* next((i for i in l if i.item_id == item_id), None)
find_item(l, item_id) ==
    IF \E j \in 1..Len(l) : l[j].item_id = item_id
    THEN l[CHOOSE j \in 1..Len(l) :
               l[j].item_id = item_id /\ \A k \in 1..(j - 1) : l[k].item_id # item_id]
    ELSE NoItem

InList(l, x) == \E j \in 1..Len(l) : l[j] = x

\* execute_trade, its validation: does it return False?
trade_refused(offer, from, to) ==
    LET offer_item == IF offer.offer_item_id # NoItemId
                      THEN find_item(items[from], offer.offer_item_id) ELSE NoItem
        request_item == IF offer.request_item_id # NoItemId
                        THEN find_item(items[to], offer.request_item_id) ELSE NoItem
    IN  \/ offer_item # NoItem /\ ~InList(items[from], offer_item)
        \/ request_item # NoItem /\ ~InList(items[to], request_item)
        \/ offer.cash_offer > cash[from]
        \/ offer.cash_request > cash[to]

\* Moving item x (if any) from player a to player b in the holdings h: the
\* item changes lists and its recorded cost, if there is one, changes dicts.
move_item(h, x, a, b) ==
    IF x = NoItem THEN h
    ELSE LET its == [h.items EXCEPT ![a] = list_remove(@, x), ![b] = Append(@, x)]
             cs == IF x.item_id \in DOMAIN h.item_costs[a]
                   THEN [h.item_costs EXCEPT
                            ![b] = dict_set(@, x.item_id, h.item_costs[a][x.item_id]),
                            ![a] = dict_pop(@, x.item_id)]
                   ELSE h.item_costs
         IN  [h EXCEPT !.items = its, !.item_costs = cs]

\* Moving the amount c (if > 0) from player a to player b.
move_cash(h, c, a, b) ==
    IF c > 0
    THEN [h EXCEPT !.cash = [h.cash EXCEPT ![a] = fsub(@, c), ![b] = fadd(@, c)]]
    ELSE h

\* execute_trade, its mutation: the holdings after the offered item, the
\* requested item, the cash offered and the cash requested have moved.
traded(offer, from, to) ==
    LET offer_item == IF offer.offer_item_id # NoItemId
                      THEN find_item(items[from], offer.offer_item_id) ELSE NoItem
        request_item == IF offer.request_item_id # NoItemId
                        THEN find_item(items[to], offer.request_item_id) ELSE NoItem
        h1 == move_item(Holdings, offer_item, from, to)
        h2 == move_item(h1, request_item, to, from)
        h3 == move_cash(h2, offer.cash_offer, from, to)
    IN  move_cash(h3, offer.cash_request, to, from)

\* execute_trade(offer, from_player_id, to_player_id), what it does to the
\* engine's state.  It does not test the phase.
execute_trade ==
    /\ \E offer \in Offers, pair \in TradePairs :
          /\ {pair[1], pair[2]} \subseteq Registered
          /\ IF trade_refused(offer, pair[1], pair[2])
             THEN /\ tcall' = Call("execute_trade", pair[1], pair[2], 0, offer, FALSE)
                  /\ UNCHANGED <<cash, items, item_costs>>
             ELSE /\ tcall' = Call("execute_trade", pair[1], pair[2], 0, offer, TRUE)
                  /\ cash' = traded(offer, pair[1], pair[2]).cash
                  /\ items' = traded(offer, pair[1], pair[2]).items
                  /\ item_costs' = traded(offer, pair[1], pair[2]).item_costs

\* A trade between two rounds: execute_trade after the round is settled.
ExecuteTrade ==
    /\ tpc = "settled"
    /\ UNCHANGED <<walletVars, auctionVars, validatorVars, agentVars>>
    /\ enable_negotiation
    /\ ntrades < MaxTrades
    /\ execute_trade
    /\ ntrades' = ntrades + 1
    /\ UNCHANGED <<gameConfig, players, is_active, is_bankrupt, bankrupt_round,
                   total_spent, total_items_won, phase, game_round, current_item,
                   current_bids, round_results, total_intent_errors, tpc, ask_idx,
                   final_results>>

\* A trade while the round's bids are being collected: execute_trade before
\* end_auction_round (the engine accepts its calls in any order).
ExecuteTradeEarly ==
    /\ tpc = "bids"
    /\ UNCHANGED <<walletVars, auctionVars, validatorVars, agentVars>>
    /\ enable_negotiation
    /\ ntrades < MaxTrades
    /\ execute_trade
    /\ ntrades' = ntrades + 1
    /\ UNCHANGED <<gameConfig, players, is_active, is_bankrupt, bankrupt_round,
                   total_spent, total_items_won, phase, game_round, current_item,
                   current_bids, round_results, total_intent_errors, tpc, ask_idx,
                   final_results>>

\* get_active_players
get_active_players == {p \in Registered : is_active[p] /\ ~is_bankrupt[p]}

game_never_ends == FALSE

\* next_round: does it end the game?
game_ends ==
    \/ Cardinality(get_active_players) <= 1
    \/ game_round >= total_rounds

next_round_counting_on ==
    /\ IF game_ends
       THEN /\ phase' = "game_over"
            /\ tcall' = Call("next_round", None, None, 0, NoTradeOffer, FALSE)
            /\ tpc' = "over"
            /\ game_round' = game_round + 1
            /\ UNCHANGED <<current_item, current_bids, ask_idx>>
       ELSE /\ game_round' = game_round + 1
            /\ generate_round_item(game_round + 1)
            /\ tcall' = Call("next_round", None, None, 0, NoTradeOffer, TRUE)
            /\ tpc' = "bids"
            /\ ask_idx' = 1
            /\ UNCHANGED phase

\* next_round, what it does to the engine's state and where it leaves the
\* driver: the game is over and it returns False, or the next round opens
\* and it returns True.  It does not test the phase.
next_round ==
    /\ IF game_ends
       THEN /\ phase' = "game_over"
            /\ tcall' = Call("next_round", None, None, 0, NoTradeOffer, FALSE)
            /\ tpc' = "over"
            /\ UNCHANGED <<game_round, current_item, current_bids, ask_idx>>
       ELSE /\ game_round' = game_round + 1
            /\ generate_round_item(game_round + 1)
            /\ tcall' = Call("next_round", None, None, 0, NoTradeOffer, TRUE)
            /\ tpc' = "bids"
            /\ ask_idx' = 1
            /\ UNCHANGED phase

\* run_tournament_generator: next_round after the round is settled.
NextRound ==
    /\ tpc = "settled"
    /\ UNCHANGED <<walletVars, auctionVars, validatorVars, agentVars>>
    /\ next_round
    /\ UNCHANGED <<gameConfig, players, playerVars, round_results,
                   total_intent_errors, ntrades, final_results>>

\* A further next_round after the game is over.
NextRoundAgain ==
    /\ tpc = "over"
    /\ UNCHANGED <<walletVars, auctionVars, validatorVars, agentVars>>
    /\ next_round
    /\ UNCHANGED <<gameConfig, players, playerVars, round_results,
                   total_intent_errors, ntrades, final_results>>

RECURSIVE sum_true_values(_, _)
\* sum(item.true_value for item in items), from the i-th item on, added to acc.
sum_true_values(l, acc) ==
    IF l = <<>> THEN acc ELSE sum_true_values(Tail(l), fadd(acc, Head(l).true_value))

get_total_value_cash_only(p) == cash[p]

\* PlayerState.get_total_value(reveal_true_value=True)
get_total_value(p) == fadd(cash[p], sum_true_values(items[p], 0))

\* PlayerState.get_item_profit
get_item_profit(p, item) ==
    fsub(item.true_value,
         IF item.item_id \in DOMAIN item_costs[p] THEN item_costs[p][item.item_id] ELSE 0)

RECURSIVE sorted_desc(_, _)
\* sorted(scores, key=lambda x: x[1], reverse=True): a stable sort; the
\* entries of `rest` are inserted one by one behind the entries of `done`
\* that score at least as much.
sorted_desc(rest, done) ==
    IF rest = <<>> THEN done
    ELSE LET x == Head(rest)
             k == Cardinality({i \in 1..Len(done) : done[i][2] >= x[2]})
         IN  sorted_desc(Tail(rest),
                         SubSeq(done, 1, k) \o <<x>> \o SubSeq(done, k + 1, Len(done)))

\* GameState.get_leaderboard(reveal_true_value=True)
get_leaderboard ==
    sorted_desc([i \in 1..Len(players) |-> <<players[i], get_total_value(players[i])>>],
                <<>>)

\* get_final_results: the winner, the leaderboard and the profit of every
\* item held.
get_final_results ==
    [winner |-> IF get_leaderboard # <<>> THEN get_leaderboard[1][1] ELSE None,
     leaderboard |-> get_leaderboard,
     profit |-> [p \in Registered |->
                   [j \in 1..Len(items[p]) |-> get_item_profit(p, items[p][j])]]]

GetFinalResults ==
    /\ tpc = "over"
    /\ UNCHANGED <<walletVars, auctionVars, validatorVars, agentVars>>
    /\ final_results' = get_final_results
    /\ tpc' = "done"
    /\ UNCHANGED <<gameConfig, players, playerVars, phase, game_round,
                   current_item, current_bids, round_results,
                   total_intent_errors, ask_idx, ntrades, tcall>>

-----------------------------------------------------------------------------
(***************************************************************************)
(* PAYMENT OPTIONS AND INTENT VALIDATION                                   *)
(* (src/wallet/mock_wallet.py, MockWallet.get_payment_options,             *)
(*  get_best_payment_option, IntentValidator)                              *)
(*                                                                         *)
(* A buyer's wallet w1 pays the recipient wallet w2.  USD amounts are      *)
(* whole dollars; budget_limit and spent_total are USD * UNIT, as transfer *)
(* computes spent_total.  The token amounts of a payment option are kept   *)
(* in 1/FINE of a unit, fine enough for the fee of every option explored   *)
(* to be an exact integer.                                                 *)
(***************************************************************************)

\* Resolution of the token amounts of a payment option: FINE per unit.
FINE == 100

\* Most validator calls explored in one run.
MaxValidations == 1

\* budget: float = None
NoBudget == -1

\* budget_limit: float = float('inf')
Infinity == -1

Buyer == "w1"

Recipient == "w2"

\* The keys of the buyer's balances, in the order of the dict.
WalletTokens == <<"ETH", "USDC", "USDT">>

\* The balances the buyer's wallet is created with (units): 0.05 ETH next to
\* 500 USDC; enough of every token; and too little of any.
BuyerBalances ==
    { [ETH |-> UNIT \div 20, USDC |-> 500 * UNIT, USDT |-> 0],
      [ETH |-> UNIT, USDC |-> 500 * UNIT, USDT |-> 300 * UNIT],
      [ETH |-> UNIT \div 100, USDC |-> 10 * UNIT, USDT |-> 0] }

\* The budgets MockWallet.create is given (USD * UNIT), None among them.
Budgets == {NoBudget, 0, 100 * UNIT}

\* The USD amounts asked about.
AmountsUsd == {50, 100}

\* What get_rate may return for each token (USD per token): 0.0 for a token
\* the exchange service does not list.
RateDraws ==
    { [ETH |-> e, USDC |-> 1, USDT |-> 1] : e \in {0, 2000} }

\* The rate an agent reckons with.
NominalRate == [ETH |-> 2000, USDC |-> 1, USDT |-> 1]

\* context.get("min_bid"): 0 stands for an absent (or zero) minimum.
MinBids == {0, 60}

\* The token and the amount execute_payment is asked to pay (units).
PaymentTokens == {"USDC"}

PaymentAmount == 50 * UNIT

\* MockWallet.create: budget_limit is replaced only by a truthy budget.
create_budget_limit(budget) ==
    IF budget # NoBudget /\ budget # 0 THEN budget ELSE Infinity

get_remaining_budget_ignoring_spending(w) == budget_limit[w]

\* get_remaining_budget: max(0, budget_limit - spent_total)
get_remaining_budget(w) ==
    IF budget_limit[w] - spent_total[w] > 0
    THEN budget_limit[w] - spent_total[w] ELSE 0

\* required = amount_usd / rate, in fine units
required_amount(amount_usd, rate) == (amount_usd * UNIT * FINE) \div rate

\* The option get_payment_options builds for a token.
PaymentOption(w, token, amount_usd, rate) ==
    LET balance  == balances[w][token] * FINE
        required == required_amount(amount_usd, rate)
        fee      == (required * TOKEN_FEES(token)) \div UNIT
        total    == required + fee
    IN  [token |-> token, balance |-> balance, required_amount |-> required,
         fee_amount |-> fee, total_amount |-> total,
         fee_percent |-> TOKEN_FEES(token), rate |-> rate,
         remaining |-> balance - total, is_affordable |-> balance >= total]

NoOption ==
    [token |-> None, balance |-> 0, required_amount |-> 0, fee_amount |-> 0,
     total_amount |-> 0, fee_percent |-> 0, rate |-> 0, remaining |-> 0,
     is_affordable |-> FALSE]

RECURSIVE listed_options(_, _, _, _)
\* The loop of get_payment_options over the balances from the i-th key on:
\* tokens without balance or without a rate are skipped.
listed_options(w, amount_usd, rates, i) ==
    IF i > Len(WalletTokens) THEN <<>>
    ELSE LET token == WalletTokens[i]
             rest  == listed_options(w, amount_usd, rates, i + 1)
         IN  IF balances[w][token] <= 0 \/ rates[token] <= 0
             THEN rest
             ELSE <<PaymentOption(w, token, amount_usd, rates[token])>> \o rest

key_le_by_fee_only(a, b) == a.fee_amount <= b.fee_amount

\* key=lambda x: (not x.is_affordable, x.fee_amount), compared as tuples
key_le(a, b) ==
    \/ a.is_affordable /\ ~b.is_affordable
    \/ a.is_affordable = b.is_affordable /\ a.fee_amount <= b.fee_amount

RECURSIVE sort_options(_, _)
\* options.sort(key=...): a stable sort; the entries of `rest` are inserted
\* one by one behind the entries of `done` whose key is not larger.
sort_options(rest, done) ==
    IF rest = <<>> THEN done
    ELSE LET x == Head(rest)
             k == Cardinality({i \in 1..Len(done) : key_le(done[i], x)})
         IN  sort_options(Tail(rest),
                          SubSeq(done, 1, k) \o <<x>> \o SubSeq(done, k + 1, Len(done)))

\* MockWallet.get_payment_options
get_payment_options(w, amount_usd, rates) ==
    sort_options(listed_options(w, amount_usd, rates, 1), <<>>)

get_first_payment_option(w, amount_usd, rates) ==
    LET options == get_payment_options(w, amount_usd, rates)
    IN  IF options # <<>> THEN options[1] ELSE NoOption

\* MockWallet.get_best_payment_option
get_best_payment_option(w, amount_usd, rates) ==
    LET options    == get_payment_options(w, amount_usd, rates)
        affordable == SelectSeq(options, LAMBDA o : o.is_affordable)
    IN  IF affordable # <<>> THEN affordable[1] ELSE NoOption

\* ExchangeRateService.convert_from_usd: usd_amount / rate if rate > 0 else 0
convert_from_usd(amount_usd, rate) ==
    IF rate > 0 THEN required_amount(amount_usd, rate) ELSE 0

abs(x) == IF x < 0 THEN -x ELSE x

\* Check 1: wallet.get_balance(token) < amount + fee
insufficient_balance(w, token, amount) ==
    balances[w][token] * FINE < amount + (amount * TOKEN_FEES(token)) \div UNIT

\* Check 2, the error: the wallet has a budget and amount_usd exceeds what
\* remains of it.
over_budget(w, amount_usd) ==
    /\ budget_limit[w] # Infinity
    /\ amount_usd * UNIT > get_remaining_budget(w)

\* Check 2, the warning: elif amount_usd > remaining * 0.9
near_budget_limit(w, amount_usd) ==
    /\ budget_limit[w] # Infinity
    /\ ~over_budget(w, amount_usd)
    /\ 10 * amount_usd * UNIT > 9 * get_remaining_budget(w)

\* Check 3: the best option is another token and current_fee > best_fee * 1.5
suboptimal_token(w, token, amount_usd, rates) ==
    LET best_option == get_best_payment_option(w, amount_usd, rates)
    IN  /\ best_option # NoOption
        /\ best_option.token # token
        /\ 2 * TOKEN_FEES(token) > 3 * TOKEN_FEES(best_option.token)

\* Check 4: abs(amount - expected_amount) > expected_amount * 0.05
calculation_error(amount, amount_usd, rate) ==
    LET expected_amount == convert_from_usd(amount_usd, rate)
    IN  20 * abs(amount - expected_amount) > expected_amount

\* Check 5: min_bid and amount_usd < min_bid
bid_too_low(amount_usd, min_bid) == min_bid # 0 /\ amount_usd < min_bid

\* The list [x] if the condition holds, [] otherwise.
entry_if(cond, x) == IF cond THEN <<x>> ELSE <<>>

Verdict(errors, warnings) ==
    [valid |-> Len(errors) = 0, errors |-> errors, warnings |-> warnings]

NoVerdict == Verdict(<<>>, <<>>)

validate_payment_short_circuit(w, token, amount, amount_usd, rates, rate, min_bid) ==
    LET errors ==
           entry_if(insufficient_balance(w, token, amount), "INSUFFICIENT_BALANCE")
              \o entry_if(over_budget(w, amount_usd), "OVER_BUDGET")
              \o entry_if(calculation_error(amount, amount_usd, rate),
                          "CALCULATION_ERROR")
              \o entry_if(bid_too_low(amount_usd, min_bid), "BID_TOO_LOW")
    IN  Verdict(IF errors = <<>> THEN <<>> ELSE <<errors[1]>>,
                entry_if(near_budget_limit(w, amount_usd), "NEAR_BUDGET_LIMIT")
                   \o entry_if(suboptimal_token(w, token, amount_usd, rates),
                               "SUBOPTIMAL_TOKEN"))

\* IntentValidator.validate_payment: what it returns.  rates holds what
\* get_rate returned to get_best_payment_option, rate what it returned to
\* convert_from_usd afterwards.
validate_payment(w, token, amount, amount_usd, rates, rate, min_bid) ==
    Verdict(entry_if(insufficient_balance(w, token, amount), "INSUFFICIENT_BALANCE")
                \o entry_if(over_budget(w, amount_usd), "OVER_BUDGET")
                \o entry_if(calculation_error(amount, amount_usd, rate),
                            "CALCULATION_ERROR")
                \o entry_if(bid_too_low(amount_usd, min_bid), "BID_TOO_LOW"),
            entry_if(near_budget_limit(w, amount_usd), "NEAR_BUDGET_LIMIT")
                \o entry_if(suboptimal_token(w, token, amount_usd, rates),
                            "SUBOPTIMAL_TOKEN"))

illogical_counter_never(counter, original, is_seller) == FALSE

\* validate_counter_offer, the seller's side: counter_amount < original_amount
illogical_counter(counter, original, is_seller) ==
    is_seller /\ counter < original

\* validate_counter_offer, the buyer's side: counter_amount <= original_amount
no_improvement(counter, original, is_seller) ==
    ~is_seller /\ counter <= original

\* IntentValidator.validate_counter_offer: what it returns.
validate_counter_offer(counter, original, is_seller) ==
    Verdict(entry_if(illogical_counter(counter, original, is_seller),
                     "ILLOGICAL_COUNTER"),
            entry_if(no_improvement(counter, original, is_seller),
                     "NO_IMPROVEMENT"))

\* A query of the wallet or of the validator and what it returned.
Query(op, token, amount, amount_usd, rates, rate, min_bid, is_seller,
      options, best, verdict) ==
    [op |-> op, token |-> token, amount |-> amount, amount_usd |-> amount_usd,
     rates |-> rates, rate |-> rate, min_bid |-> min_bid,
     is_seller |-> is_seller, options |-> options, best |-> best,
     verdict |-> verdict]

NoRates == [ETH |-> 0, USDC |-> 0, USDT |-> 0]

NoQuery ==
    Query(None, None, 0, 0, NoRates, 0, 0, FALSE, <<>>, NoOption, NoVerdict)

\* A buyer's wallet as MockWallet.create returns it, an empty recipient
\* wallet and a new IntentValidator.
PaymentInit ==
    /\ \E b \in BuyerBalances :
          balances = [w \in Wallets |->
                        IF w = Buyer THEN b ELSE [ETH |-> 0, USDC |-> 0, USDT |-> 0]]
    /\ \E budget \in Budgets :
          /\ declared_budget = [w \in Wallets |-> IF w = Buyer THEN budget ELSE NoBudget]
          /\ budget_limit = [w \in Wallets |->
                               IF w = Buyer THEN create_budget_limit(budget)
                               ELSE create_budget_limit(NoBudget)]
    /\ transactions = [w \in Wallets |-> <<>>]
    /\ spent_total = [w \in Wallets |-> 0]
    /\ ntx = 0
    /\ lastCall = NoCall
    /\ detected_errors = <<>>
    /\ detected_warnings = <<>>
    /\ nvalidations = 0
    /\ vcall = NoQuery

\* execute_payment (src/tools/payment_tools.py): the buyer's wallet pays the
\* recipient by wallet.transfer at the rate get_rate returns.
ExecutePayment ==
    /\ ntx < MaxTx
    /\ \E token \in PaymentTokens :
          transfer(Buyer, Recipient, token, PaymentAmount, NominalRate[token], TRUE)
    /\ UNCHANGED <<validatorVars, agentVars, auctionVars, tournamentVars>>

\* wallet.get_payment_options(amount_usd, exchange_service)
GetPaymentOptions ==
    /\ \E amount_usd \in AmountsUsd, rates \in RateDraws :
          vcall' = Query("get_payment_options", None, 0, amount_usd, rates, 0, 0,
                         FALSE, get_payment_options(Buyer, amount_usd, rates),
                         NoOption, NoVerdict)
    /\ UNCHANGED <<declared_budget, budget_limit, detected_errors, detected_warnings,
                   nvalidations>>
    /\ UNCHANGED <<walletVars, agentVars, auctionVars, tournamentVars>>

\* wallet.get_best_payment_option(amount_usd, exchange_service)
GetBestPaymentOption ==
    /\ \E amount_usd \in AmountsUsd, rates \in RateDraws :
          vcall' = Query("get_best_payment_option", None, 0, amount_usd, rates, 0,
                         0, FALSE, get_payment_options(Buyer, amount_usd, rates),
                         get_best_payment_option(Buyer, amount_usd, rates),
                         NoVerdict)
    /\ UNCHANGED <<declared_budget, budget_limit, detected_errors, detected_warnings,
                   nvalidations>>
    /\ UNCHANGED <<walletVars, agentVars, auctionVars, tournamentVars>>

\* The token amounts an agent states for amount_usd: the conversion at the
\* rate it reckons with, or twice that.
StatedAmounts(token, amount_usd) ==
    { required_amount(amount_usd, NominalRate[token]),
      2 * required_amount(amount_usd, NominalRate[token]) }

\* validator.validate_payment(wallet, token, amount, amount_usd, ...): the
\* verdict is returned and its entries are added to the validator's lists.
ValidatePayment ==
    /\ nvalidations < MaxValidations
    /\ \E token \in {WalletTokens[i] : i \in 1..Len(WalletTokens)},
          amount_usd \in AmountsUsd, rates \in RateDraws, min_bid \in MinBids :
          \E amount \in StatedAmounts(token, amount_usd),
             rate \in {draw[token] : draw \in RateDraws} :
             LET verdict == validate_payment(Buyer, token, amount, amount_usd,
                                             rates, rate, min_bid)
             IN  /\ vcall' = Query("validate_payment", token, amount, amount_usd,
                                   rates, rate, min_bid, FALSE, <<>>, NoOption,
                                   verdict)
                 /\ detected_errors' = detected_errors \o verdict.errors
                 /\ detected_warnings' = detected_warnings \o verdict.warnings
    /\ nvalidations' = nvalidations + 1
    /\ UNCHANGED <<declared_budget, budget_limit>>
    /\ UNCHANGED <<walletVars, agentVars, auctionVars, tournamentVars>>

\* The amounts of the bids and counters handed to validate_counter_offer.
CounterAmounts == {40, 50}

\* validator.validate_counter_offer(counter_amount, original_amount, is_seller)
ValidateCounterOffer ==
    /\ nvalidations < MaxValidations
    /\ \E counter \in CounterAmounts, original \in CounterAmounts,
          is_seller \in BOOLEAN :
          LET verdict == validate_counter_offer(counter, original, is_seller)
          IN  /\ vcall' = Query("validate_counter_offer", None, counter, original,
                                NoRates, 0, 0, is_seller, <<>>, NoOption, verdict)
              /\ detected_errors' = detected_errors \o verdict.errors
              /\ detected_warnings' = detected_warnings \o verdict.warnings
    /\ nvalidations' = nvalidations + 1
    /\ UNCHANGED <<declared_budget, budget_limit>>
    /\ UNCHANGED <<walletVars, agentVars, auctionVars, tournamentVars>>

-----------------------------------------------------------------------------
(***************************************************************************)
(* DECISION PORT                                                           *)
(* (src/agents/auction_agent.py, SellerAgent and BuyerAgent)               *)
(*                                                                         *)
(* Every decision is asked of the model behind the agent; the reply is one *)
(* of: there is no model, the call raises, the content holds no JSON       *)
(* object, or the content is a JSON object.  The seller is asked about     *)
(* bids in cents, the buyer b1 owns the wallet w1.                         *)
(***************************************************************************)

\* The agent whose wallet is Buyer.
BuyerAgent == "b1"

NoAnswer == [action |-> None, amount |-> 0]

\* The ways a call of the model may end without a JSON object.
FailureKinds == {"no_llm", "raises", "unparseable"}

\* What the model may come back with when asked for accept / reject /
\* counter: a failure, or a JSON object naming an action.
Replies(amounts) ==
    { [kind |-> k, answer |-> NoAnswer] : k \in FailureKinds }
    \cup { [kind |-> "json", answer |-> [action |-> a, amount |-> 0]] :
           a \in {"accept", "reject"} }
    \cup { [kind |-> "json", answer |-> [action |-> "counter", amount |-> x]] :
           x \in amounts }

\* The bids the seller is asked about, and the counters the buyer is asked
\* about (cents).
BidsAsked == {8500, 8999, 9000, 9999, 10000, 11000}

CountersAsked == {9900, 10000, 10100}

respond_to_bid_rejects_on_failure(amount, reserve, reply) ==
    IF reply.kind \in FailureKinds
    THEN [action |-> "reject", amount |-> 0]
    ELSE reply.answer

\* SellerAgent.respond_to_bid: without a model, or when the call raises, the
\* fallback answers; content without a JSON object parses to {} and gets
\* action = "reject".
respond_to_bid(amount, reserve, reply) ==
    IF reply.kind \in {"no_llm", "raises"}
    THEN fallback_respond_to_bid(amount, reserve)
    ELSE IF reply.kind = "unparseable"
         THEN [action |-> "reject", amount |-> 0]
         ELSE reply.answer

\* BuyerAgent.respond_to_counter: the answers it may give.
respond_to_counter(counter, orig, budget, reply) ==
    IF reply.kind \in {"no_llm", "raises"}
    THEN fallback_respond_to_counter(counter, orig, budget)
    ELSE IF reply.kind = "unparseable"
         THEN {[action |-> "reject", amount |-> 0]}
         ELSE {reply.answer}

\* No bid (make_bid returns None).
NoBid == [action |-> None, amount |-> 0]

\* BuyerAgent._fallback_make_bid: no bid (random.random() < 0.3), or the
\* current price raised by 5 to 15 percent, at most max_budget.
fallback_make_bid(price, budget) ==
    {NoBid} \cup
    { [action |-> "bid",
       amount |-> IF (price * (100 + inc)) \div 100 > budget
                  THEN budget ELSE (price * (100 + inc)) \div 100] :
      inc \in {5, 10, 15} }

\* What the model may come back with when asked for a bid: a failure,
\* "null", or a JSON object with an amount.
BidReplies(amounts) ==
    { [kind |-> k, answer |-> NoBid] : k \in FailureKinds \cup {"null"} }
    \cup { [kind |-> "json", answer |-> [action |-> "bid", amount |-> x]] :
           x \in amounts }

\* BuyerAgent.make_bid for the buyer b: the results it may give.
agent_make_bid(b, price, reply) ==
    IF reply.kind \in {"no_llm", "raises"}
    THEN fallback_make_bid(price, max_budget[b])
    ELSE IF reply.kind \in {"unparseable", "null"}
         THEN {NoBid}
         ELSE {[action |-> "bid", amount |-> make_bid(b, reply.answer.amount)]}

PaymentIntent(token, amount, amount_usd, recipient, reasoning) ==
    [token |-> token, amount |-> amount, amount_usd |-> amount_usd,
     recipient |-> recipient, reasoning |-> reasoning]

NoPaymentIntent == PaymentIntent(None, 0, 0, None, None)

RECURSIVE intent_options(_, _, _, _)
\* create_payment_intent, its options: the tokens of the wallet, from the
\* i-th key on, that have a rate and whose balance covers amount_usd / rate
\* (the fee is not counted).
intent_options(w, amount_usd, rates, i) ==
    IF i > Len(WalletTokens) THEN <<>>
    ELSE LET token == WalletTokens[i]
             rest  == intent_options(w, amount_usd, rates, i + 1)
         IN  IF rates[token] <= 0 THEN rest
             ELSE IF balances[w][token] * FINE >= required_amount(amount_usd, rates[token])
                  THEN <<[token |-> token,
                          required |-> required_amount(amount_usd, rates[token])]>>
                           \o rest
                  ELSE rest

\* priority = {"USDT": 1, "USDC": 2, "DAI": 3, "ETH": 10}, 5 for any other
priority(token) ==
    CASE token = "USDT" -> 1
      [] token = "USDC" -> 2
      [] token = "DAI"  -> 3
      [] token = "ETH"  -> 10
      [] OTHER          -> 5

\* sorted(options, key=lambda x: priority.get(x["token"], 5))[0]: the first
\* of the options of least priority number.
first_by_priority(options) ==
    options[CHOOSE i \in 1..Len(options) :
                /\ \A j \in 1..Len(options) :
                      priority(options[i].token) <= priority(options[j].token)
                /\ \A j \in 1..(i - 1) :
                      priority(options[j].token) > priority(options[i].token)]

\* BuyerAgent._fallback_payment_intent
fallback_payment_intent(amount_usd, recipient, options) ==
    IF options = <<>>
    THEN PaymentIntent("USDC", amount_usd * UNIT * FINE, amount_usd, recipient,
                       "insufficient_balance")
    ELSE PaymentIntent(first_by_priority(options).token,
                       first_by_priority(options).required, amount_usd, recipient,
                       "stablecoin_first")

\* What the model may come back with when asked for a payment intent: a
\* failure, or a JSON object naming a token and an amount.
IntentReplies(amount_usd) ==
    { [kind |-> k, answer |-> NoPaymentIntent] : k \in FailureKinds }
    \cup { [kind |-> "json",
            answer |-> PaymentIntent(t, required_amount(amount_usd, NominalRate[t]),
                                     amount_usd, r, "llm")] :
           t \in {"ETH", "USDC"}, r \in Recipients }

\* BuyerAgent.create_payment_intent: content without a JSON object parses
\* to {}, whose fields are filled from the first option, if there is one.
create_payment_intent(w, amount_usd, recipient, rates, reply) ==
    LET options == intent_options(w, amount_usd, rates, 1)
    IN  IF reply.kind \in {"no_llm", "raises"}
        THEN fallback_payment_intent(amount_usd, recipient, options)
        ELSE IF reply.kind = "unparseable"
             THEN IF options # <<>>
                  THEN PaymentIntent(options[1].token, options[1].required,
                                     amount_usd, recipient, "unparseable")
                  ELSE PaymentIntent(None, 0, amount_usd, recipient, "unparseable")
             ELSE reply.answer

\* A decision asked of an agent, the reply of the model and what the caller
\* got back.
Decision(op, reply_kind, amount, other, rates, answer, intent) ==
    [op |-> op, reply |-> reply_kind, amount |-> amount, other |-> other,
     rates |-> rates, answer |-> answer, intent |-> intent]

NoDecision == Decision(None, None, 0, 0, NoRates, NoAnswer, NoPaymentIntent)

\* seller.respond_to_bid(bid, item, reserve_price)
RespondToBid ==
    /\ \E amount \in BidsAsked, reply \in Replies({reserve_price}) :
          dcall' = Decision("respond_to_bid", reply.kind, amount, reserve_price,
                            NoRates, respond_to_bid(amount, reserve_price, reply),
                            NoPaymentIntent)
    /\ UNCHANGED <<walletVars, validatorVars, auctionVars, tournamentVars>>

\* buyer.make_bid(item, current_price, bid_history)
MakeBid ==
    /\ \E reply \in BidReplies({9500, 10000}) :
          \E answer \in agent_make_bid(BuyerAgent, current_price, reply) :
             dcall' = Decision("make_bid", reply.kind, current_price,
                               max_budget[BuyerAgent], NoRates, answer,
                               NoPaymentIntent)
    /\ UNCHANGED <<walletVars, validatorVars, auctionVars, tournamentVars>>

\* buyer.respond_to_counter(counter_amount, item, original_bid)
RespondToCounter ==
    /\ \E counter \in CountersAsked, orig \in {9000, 9900},
          reply \in Replies({9950}) :
          \E answer \in respond_to_counter(counter, orig, max_budget[BuyerAgent],
                                           reply) :
             dcall' = Decision("respond_to_counter", reply.kind, counter, orig,
                               NoRates, answer, NoPaymentIntent)
    /\ UNCHANGED <<walletVars, validatorVars, auctionVars, tournamentVars>>

\* buyer.create_payment_intent(amount_usd, recipient, item_name, auction_id)
CreatePaymentIntent ==
    /\ \E amount_usd \in AmountsUsd, rates \in RateDraws :
          \E reply \in IntentReplies(amount_usd) :
             dcall' = Decision("create_payment_intent", reply.kind, amount_usd, 0,
                               rates, NoAnswer,
                               create_payment_intent(Buyer, amount_usd, Seller,
                                                     rates, reply))
    /\ UNCHANGED <<walletVars, validatorVars, auctionVars, tournamentVars>>

-----------------------------------------------------------------------------------------------------------------------------------------------------
(***************************************************************************)
(* SPECIFICATIONS                                                          *)
(***************************************************************************)

\* An auction as constructed, with empty wallets.
IdleWallets ==
    /\ balances = [w \in Wallets |-> [t \in Tokens |-> 0]]
    /\ transactions = [w \in Wallets |-> <<>>]
    /\ spent_total = [w \in Wallets |-> 0]
    /\ ntx = 0
    /\ lastCall = NoCall

IdleAuction ==
    /\ max_rounds = 1
    /\ buyers = <<"b1">>
    /\ offers = {2}
    /\ reserve_price = ReservePrice
    /\ max_budget = [b \in AllBuyers |-> DefaultBudget]
    /\ status = "open"
    /\ current_round = 0
    /\ current_price = ReservePrice
    /\ highest_bidder = None
    /\ bids = <<>>
    /\ winner = None
    /\ final_price = NoPrice
    /\ negotiation_history = <<>>
    /\ pc = "start"
    /\ buyer_idx = 0
    /\ round_bids = <<>>
    /\ active_bid = 0
    /\ counter_amount = 0
    /\ original_bid = 0
    /\ depth = 0
    /\ payments = 0
    /\ payment_intent = NoIntent
    /\ payment_errors = {}

\* A tournament engine as constructed.
IdleTournament ==
    /\ total_rounds = 1
    /\ starting_cash = StartingCash
    /\ enable_negotiation = TRUE
    /\ player_configs = <<>>
    /\ players = <<>>
    /\ cash = [p \in AllPlayers |-> 0]
    /\ items = [p \in AllPlayers |-> <<>>]
    /\ item_costs = [p \in AllPlayers |-> EmptyDict]
    /\ is_active = [p \in AllPlayers |-> TRUE]
    /\ is_bankrupt = [p \in AllPlayers |-> FALSE]
    /\ bankrupt_round = [p \in AllPlayers |-> -1]
    /\ total_spent = [p \in AllPlayers |-> 0]
    /\ total_items_won = [p \in AllPlayers |-> 0]
    /\ phase = "lobby"
    /\ game_round = 0
    /\ current_item = NoItem
    /\ current_bids = <<>>
    /\ round_results = <<>>
    /\ total_intent_errors = 0
    /\ tpc = "lobby"
    /\ ask_idx = 0
    /\ ntrades = 0
    /\ tcall = NoEngineCall
    /\ final_results = NoResults

\* No wallet has a budget and the validator has not been called.
IdleValidator ==
    /\ declared_budget = [w \in Wallets |-> NoBudget]
    /\ budget_limit = [w \in Wallets |-> Infinity]
    /\ detected_errors = <<>>
    /\ detected_warnings = <<>>
    /\ nvalidations = 0
    /\ vcall = NoQuery

\* No agent has been asked anything.
IdleAgents == dcall = NoDecision

\* Ledger runs: transfers between the wallets.
WalletSpecInit ==
    WalletInit /\ IdleAuction /\ IdleTournament /\ IdleValidator /\ IdleAgents

WalletNext == Transfer

WalletSpec == WalletSpecInit /\ [][WalletNext]_vars

\* Auction runs: one run_auction from construction to its return.
AuctionSpecInit ==
    AuctionInit /\ IdleWallets /\ IdleTournament /\ IdleValidator /\ IdleAgents

AuctionNext ==
    \/ StartAuction
    \/ RoundBegin
    \/ LoopExit
    \/ CollectBid
    \/ NoBids
    \/ SelectHighest
    \/ SellerRespond
    \/ BuyerRespond
    \/ ContinueLimit
    \/ SellerRespondContinue
    \/ BuyerRespondContinue
    \/ AfterLoop

AuctionSpec == AuctionSpecInit /\ [][AuctionNext]_vars

\* The same runs under run_auction's scheduling: it is one coroutine that
\* awaits each decision in turn, so a run that can take a step takes one.
AuctionLiveSpec == AuctionSpecInit /\ [][AuctionNext]_vars /\ WF_vars(AuctionNext)

\* Auction runs in which the seller and the buyers answer by their fallback
\* policies.
FallbackSpecInit ==
    FallbackInit /\ IdleWallets /\ IdleTournament /\ IdleValidator /\ IdleAgents

FallbackNext ==
    \/ StartAuction
    \/ RoundBegin
    \/ LoopExit
    \/ CollectBid
    \/ NoBids
    \/ SelectHighest
    \/ FallbackSellerRespond
    \/ FallbackBuyerRespond
    \/ ContinueLimit
    \/ FallbackSellerRespondContinue
    \/ FallbackBuyerRespondContinue
    \/ AfterLoop

FallbackSpec == FallbackSpecInit /\ [][FallbackNext]_vars

\* Tournament runs: one game from the lobby to its final results.
TournamentSpecInit ==
    TournamentInit /\ IdleWallets /\ IdleAuction /\ IdleValidator /\ IdleAgents

TournamentNext ==
    \/ AddPlayer
    \/ StartGame
    \/ Pass
    \/ SubmitBid
    \/ EndAuctionRound
    \/ ExecuteTrade
    \/ NextRound
    \/ GetFinalResults

TournamentSpec == TournamentSpecInit /\ [][TournamentNext]_vars

\* The games run_tournament_generator drives: rounds of bids settled by
\* end_auction_round and followed by next_round, without trades (it never
\* calls execute_trade), and next_round called again once the game is over.
DriverNext ==
    \/ AddPlayer
    \/ StartGame
    \/ Pass
    \/ SubmitBid
    \/ EndAuctionRound
    \/ NextRound
    \/ NextRoundAgain
    \/ GetFinalResults

\* The steps of the driver's loop.  It is a sequential loop (while the phase
\* is not GameOver: run_round, next_round), so a game whose loop can take a
\* step takes one.
DriverRound == Pass \/ SubmitBid \/ EndAuctionRound \/ NextRound

TournamentLiveSpec ==
    TournamentSpecInit /\ [][DriverNext]_vars /\ WF_vars(DriverRound)

\* Calls of the engine in orders the driver does not produce but the engine
\* accepts: a round settled again, a trade while bids are collected.
EngineSpecInit ==
    TournamentInit /\ IdleWallets /\ IdleAuction /\ IdleValidator /\ IdleAgents

EngineNext ==
    \/ AddPlayer
    \/ StartGame
    \/ Pass
    \/ SubmitBid
    \/ EndAuctionRound
    \/ EndAuctionRoundAgain
    \/ ExecuteTrade
    \/ ExecuteTradeEarly
    \/ NextRound
    \/ NextRoundAgain
    \/ GetFinalResults

EngineSpec == EngineSpecInit /\ [][EngineNext]_vars

\* Payment runs: the buyer's wallet is queried for its options, pays, and
\* the validator judges payments and counter offers.
PaymentSpecInit == PaymentInit /\ IdleAuction /\ IdleTournament /\ IdleAgents

PaymentNext ==
    \/ ExecutePayment
    \/ GetPaymentOptions
    \/ GetBestPaymentOption
    \/ ValidatePayment
    \/ ValidateCounterOffer

PaymentSpec == PaymentSpecInit /\ [][PaymentNext]_vars

\* Decision runs: the agents of an auction are asked for their decisions.
AgentSpecInit == FallbackInit /\ PaymentInit /\ IdleTournament /\ IdleAgents

AgentNext ==
    \/ RespondToBid
    \/ MakeBid
    \/ RespondToCounter
    \/ CreatePaymentIntent

AgentSpec == AgentSpecInit /\ [][AgentNext]_vars

Init ==
    WalletInit /\ AuctionInit /\ TournamentInit /\ IdleValidator /\ IdleAgents

Next == WalletNext \/ AuctionNext \/ TournamentNext \/ PaymentNext \/ AgentNext

Spec == Init /\ [][Next]_vars

-----------------------------------------------------------------------------
(***************************************************************************)
(* PROPERTIES OF THE LEDGER (checked under WalletSpec)                     *)
(***************************************************************************)

IsCall(c) == c.from # None

\* C1: after any sequence of transfers between wallets that start with
\* non-negative balances, every token balance of every wallet is
\* non-negative.
C1_BalancesNonNegative ==
    \A w \in Wallets : \A t \in Tokens : balances[w][t] >= 0

\* C2: a transfer of `amount` whose sender holds less than
\* amount * (1 + fee%/100) of the token fails with the insufficient-balance
\* error and leaves both wallets' balances, both histories and the sender's
\* spent_total as they were.
C2_InsufficientTransferFailsAtomically ==
    [][ LET c == lastCall'
        IN  (IsCall(c) /\ balances[c.from][c.token] * UNIT
                            < c.amount * (UNIT + TOKEN_FEES(c.token)))
            => /\ ~c.ok
               /\ balances' = balances
               /\ transactions' = transactions
               /\ spent_total' = spent_total ]_vars

\* C2 witness: a positive transfer the sender could pay without the fee but
\* not with it was refused.
C2_Witness ==
    /\ IsCall(lastCall)
    /\ ~lastCall.ok
    /\ lastCall.amount > 0
    /\ balances[lastCall.from][lastCall.token] >= lastCall.amount

\* C3: a transfer between two wallets that succeeds takes exactly
\* amount * (1 + fee%/100) of the token from the sender, gives exactly amount
\* to the recipient, appends one and the same Transaction to both histories,
\* adds (amount + fee) * rate to the sender's spent_total and changes no other
\* balance.
C3_SuccessfulTransferEffects ==
    [][ LET c == lastCall'
        IN  (IsCall(c) /\ c.ok /\ c.from # c.to)
            => /\ balances'[c.from][c.token] * UNIT
                    = balances[c.from][c.token] * UNIT
                        - c.amount * (UNIT + TOKEN_FEES(c.token))
               /\ balances'[c.to][c.token] = balances[c.to][c.token] + c.amount
               /\ \A w \in Wallets : \A t \in Tokens \ {c.token} :
                     balances'[w][t] = balances[w][t]
               /\ \A w \in Wallets \ {c.from, c.to} : balances'[w] = balances[w]
               /\ Len(transactions'[c.from]) = Len(transactions[c.from]) + 1
               /\ Len(transactions'[c.to]) = Len(transactions[c.to]) + 1
               /\ SubSeq(transactions'[c.from], 1, Len(transactions[c.from]))
                    = transactions[c.from]
               /\ SubSeq(transactions'[c.to], 1, Len(transactions[c.to]))
                    = transactions[c.to]
               /\ LET tx == transactions'[c.from][Len(transactions'[c.from])]
                  IN  /\ transactions'[c.to][Len(transactions'[c.to])] = tx
                      /\ tx.from_wallet = c.from /\ tx.to_wallet = c.to
                      /\ tx.token = c.token /\ tx.amount = c.amount
                      /\ \A w \in Wallets : \A i \in 1..Len(transactions[w]) :
                            transactions[w][i].tx_id # tx.tx_id
               /\ spent_total'[c.from] * UNIT
                    = spent_total[c.from] * UNIT
                        + c.amount * (UNIT + TOKEN_FEES(c.token)) * c.rate ]_vars

\* C3 witness: a positive transfer between two wallets went through after an
\* earlier one.
C3_Witness ==
    /\ IsCall(lastCall)
    /\ lastCall.ok
    /\ lastCall.from # lastCall.to
    /\ lastCall.amount > 0
    /\ Len(transactions[lastCall.to]) = 2

-----------------------------------------------------------------------------
(***************************************************************************)
(* PROPERTIES OF THE AUCTION ENGINE (checked under AuctionSpec)            *)
(***************************************************************************)

Terminal == {"sold", "cancelled"}

LastEntry == negotiation_history[Len(negotiation_history)]

\* The step appends a transcript entry of `agent` with `action`.
Answers(agents, action) ==
    /\ Len(negotiation_history') = Len(negotiation_history) + 1
    /\ negotiation_history'[Len(negotiation_history')].action = action
    /\ negotiation_history'[Len(negotiation_history')].from_agent \in agents

BuyerNames == {buyers[i] : i \in 1..Len(buyers)}

\* collect_bids has asked every buyer and nobody bid.
BidlessRound ==
    pc = "collect" /\ buyer_idx > Len(buyers) /\ round_bids = <<>>

\* C4: if run_auction uses up all max_rounds rounds without a sale, the final
\* status is Cancelled.
C4_ExhaustedRoundsCancelled ==
    (pc = "done" /\ current_round = max_rounds /\ status # "sold")
        => status = "cancelled"

\* C5 (as claimed): a round without any bid, while rounds remain, does not
\* end the auction: the engine goes on to the next round of bid collection.
C5_BidlessRoundAdvances ==
    [][ (BidlessRound /\ current_round < max_rounds)
            => (status' # "cancelled" /\ pc' = "loop") ]_vars

\* C5 (amended): a round without any bid ends the auction at once, whether
\* or not rounds remain: the status becomes Cancelled, the loop is left, and
\* no later step asks for a bid or changes the round counter.
C5_BidlessRoundCancels ==
    [][ /\ BidlessRound => (status' = "cancelled" /\ pc' = "after_loop")
        /\ status = "cancelled"
              => /\ status' = "cancelled"
                 /\ pc' = "done"
                 /\ current_round' = current_round
                 /\ bids' = bids ]_vars

\* C5 witness: the auction was cancelled by a bid-less round although rounds
\* remained.
C5_Witness ==
    status = "cancelled" /\ current_round < max_rounds /\ pc = "done"

\* C6: the status only moves forward along Open, Negotiating, {Sold,
\* Cancelled}; once it is Sold or Cancelled no bid is collected, no seller or
\* buyer is consulted and the status never changes again.
C6_StatusForwardAndTerminal ==
    [][ /\ status' # status
              => \/ status = "open" /\ status' \in {"negotiating", "cancelled"}
                 \/ status = "negotiating" /\ status' \in Terminal
        /\ status \in Terminal
              => /\ status' = status
                 /\ pc' \in {"after_loop", "done"}
                 /\ bids' = bids
                 /\ buyer_idx' = buyer_idx
                 /\ negotiation_history' = negotiation_history
                 /\ current_round' = current_round
                 /\ winner' = winner
                 /\ final_price' = final_price ]_vars

\* C6 witness: a sale ended the run while rounds remained.
C6_Witness ==
    status = "sold" /\ pc = "done" /\ current_round < max_rounds

\* C7: when the seller accepts a bid (the round's active bid or a re-bid),
\* the auction is Sold, the winner is that bid's bidder, final_price is that
\* bid's amount and the bid is marked accepted.
C7_SellerAcceptSells ==
    [][ (pc \in {"seller", "cont"} /\ Answers({Seller}, "accept"))
            => /\ status' = "sold"
               /\ winner' = bids[active_bid].bidder
               /\ final_price' = bids[active_bid].amount
               /\ bids'[active_bid].status = "accepted"
               /\ bids'[active_bid].amount = bids[active_bid].amount ]_vars

\* C7 witness: the seller accepted a re-bid whose amount is not the round's
\* highest collected bid.
C7_Witness ==
    /\ status = "sold"
    /\ LastEntry.from_agent = Seller
    /\ LastEntry.action = "accept"
    /\ bids[active_bid].status = "accepted"
    /\ bids[active_bid].amount # current_price

\* C8: when the buyer accepts a counter-offer, the auction is Sold at the
\* counter amount (not at the bid's amount) and the winner is the buyer whose
\* bid was under negotiation.
C8_BuyerAcceptSellsAtCounter ==
    [][ (pc \in {"buyer", "buyer_cont"} /\ Answers(BuyerNames, "accept"))
            => /\ LastEntry.from_agent = Seller
               /\ LastEntry.action = "counter"
               /\ status' = "sold"
               /\ final_price' = LastEntry.amount
               /\ winner' = bids[active_bid].bidder
               /\ winner' = LastEntry.to_agent ]_vars

\* C8 witness: a buyer accepted a counter that differs from the bid's amount.
C8_Witness ==
    /\ status = "sold"
    /\ LastEntry.from_agent \in BuyerNames
    /\ LastEntry.action = "accept"
    /\ final_price # bids[active_bid].amount

\* Transcript entries of the seller in round r.
SellerEntries(r) ==
    {i \in 1..Len(negotiation_history) :
        /\ negotiation_history[i].round_number = r
        /\ negotiation_history[i].from_agent = Seller}

\* C9: in one round the seller is consulted on re-bids at most MaxDepth
\* times (after the first answer to the active bid); when the depth is
\* exceeded the round ends without sale, the status is not Cancelled, and if
\* rounds remain the next round's bid collection begins.
C9_DepthBounded ==
    /\ [](\A r \in 1..max_rounds : Cardinality(SellerEntries(r)) <= 1 + MaxDepth)
    /\ [][ /\ (pc = "cont" /\ Cardinality(SellerEntries(current_round)) = 1 + MaxDepth)
              => /\ status' = "negotiating"
                 /\ winner' = None
                 /\ negotiation_history' = negotiation_history
                 /\ bids' = bids
                 /\ pc' = "loop"
           /\ (pc = "loop" /\ status = "negotiating" /\ current_round < max_rounds)
              => /\ pc' = "collect"
                 /\ current_round' = current_round + 1
                 /\ status' = "negotiating" ]_vars

\* C9 witness: round 2 collects bids after round 1 ran into the depth limit.
C9_Witness ==
    /\ pc = "collect"
    /\ current_round = 2
    /\ Cardinality(SellerEntries(1)) = 1 + MaxDepth
    /\ negotiation_history[Len(negotiation_history)].action = "counter"
    /\ status = "negotiating"

RoundBidSet == {round_bids[i] : i \in 1..Len(round_bids)}

\* C10: when a round collects at least one bid, the bid taken into
\* negotiation is one of maximum amount, the earliest of them; current_price
\* becomes its amount and highest_bidder its bidder.
C10_HighestBidFirstWins ==
    [][ (pc = "collect" /\ buyer_idx > Len(buyers) /\ round_bids # <<>>)
            => /\ active_bid' \in RoundBidSet
               /\ \A j \in RoundBidSet :
                     /\ bids[j].amount <= bids[active_bid'].amount
                     /\ bids[j].amount = bids[active_bid'].amount
                            => active_bid' <= j
               /\ current_price' = bids[active_bid'].amount
               /\ highest_bidder' = bids[active_bid'].bidder
               /\ pc' = "seller" ]_vars

\* C10 witness: the seller is asked about the first of two equal highest
\* bids, a lower bid having come before them.
C10_Witness ==
    /\ pc = "seller"
    /\ Len(round_bids) = 3
    /\ bids[round_bids[1]].amount < bids[round_bids[2]].amount
    /\ bids[round_bids[2]].amount = bids[round_bids[3]].amount
    /\ active_bid = round_bids[2]

-----------------------------------------------------------------------------
(***************************************************************************)
(* PROPERTIES OF THE FALLBACK POLICIES AND OF THE PAYMENT (FallbackSpec)   *)
(***************************************************************************)

\* The negotiation over the round's highest bid is over, and that bid lay in
\* the band 0.9 * reserve <= b < reserve and came from a buyer whose budget
\* covers the reserve.
BandBidNegotiated ==
    /\ pc \in {"loop", "after_loop", "done"}
    /\ active_bid \in RoundBidSet
    /\ 10 * bids[active_bid].amount >= 9 * reserve_price
    /\ bids[active_bid].amount < reserve_price
    /\ max_budget[bids[active_bid].bidder] >= reserve_price

\* C11: with the fallback seller and buyer, a highest bid b with
\* 0.9 * reserve <= b < reserve from a buyer whose budget is at least the
\* reserve is countered at exactly the reserve, the buyer accepts, and the
\* auction is Sold with final_price = reserve and winner = that buyer.
C11_FallbackCounterAtReserveSells ==
    BandBidNegotiated =>
        LET n == Len(negotiation_history)
            buyer == bids[active_bid].bidder
        IN  /\ n >= 2
            /\ negotiation_history[n - 1] =
                   NegotiationRound(current_round, "counter", Seller, buyer,
                                    reserve_price)
            /\ negotiation_history[n] =
                   NegotiationRound(current_round, "accept", buyer, Seller,
                                    reserve_price)
            /\ status = "sold"
            /\ final_price = reserve_price
            /\ winner = buyer

\* The run has returned after a bid of $95.00 against the reserve of $100.00
\* was negotiated.
C11_Witness ==
    /\ BandBidNegotiated
    /\ pc = "done"
    /\ bids[active_bid].amount = 9500
    /\ final_price = FallbackReserve

-----------------------------------------------------------------------------
(***************************************************************************)
(* PROPERTIES OF THE TOURNAMENT ENGINE (checked under TournamentSpec)      *)
(***************************************************************************)

\* The step is a submit_bid call, a settlement (end_auction_round), an
\* execute_trade call, a next_round call.
SubmitStep == tpc = "bids" /\ tcall' # tcall /\ tcall'.op = "submit_bid"

SettleStep == tpc = "bids" /\ tpc' = "settled"

TradeStep == tpc = "settled" /\ ntrades' = ntrades + 1

NextRoundStep == tpc = "settled" /\ tpc' # "settled"

LastResult == round_results[Len(round_results)]

\* C13: a bid above the player's cash (budget_exceed) or above 150% of the
\* item's estimate_high (overpay) is appended to the round's bids with these
\* errors and the result invalid, stays invalid, and is not the bid that
\* end_auction_round makes the winner.
C13_InvalidBidsRecordedNeverWin ==
    [][/\ (SubmitStep /\ tcall'.ok) =>
             LET p == tcall'.from
                 a == tcall'.amount
                 b == current_bids'[Len(current_bids')]
             IN  /\ Len(current_bids') = Len(current_bids) + 1
                 /\ b.player_id = p /\ b.amount = a
                 /\ ("budget_exceed" \in b.intent_errors) <=> (a > cash[p])
                 /\ ("overpay" \in b.intent_errors)
                        <=> (2 * a > 3 * current_item.estimate_high)
                 /\ \A i \in 1..Len(current_bids') :
                       current_bids'[i].intent_errors # {}
                           => current_bids'[i].result = "invalid"
       /\ SettleStep =>
             \A i \in 1..Len(current_bids) :
                 current_bids[i].intent_errors # {} =>
                     /\ current_bids'[i] = current_bids[i]
                     /\ current_bids[i].result = "invalid"
                     /\ ~ /\ round_results'[Len(round_results')].winner
                                = current_bids[i].player_id
                          /\ round_results'[Len(round_results')].winning_bid
                                = current_bids[i].amount]_vars

\* A round was settled in which the highest bid exceeded its player's cash
\* and a lower bid won.
C13_Witness ==
    /\ tpc = "settled"
    /\ \E i, j \in 1..Len(current_bids) :
          /\ "budget_exceed" \in current_bids[i].intent_errors
          /\ current_bids[i].amount > current_bids[j].amount
          /\ LastResult.winner = current_bids[j].player_id
          /\ LastResult.winning_bid = current_bids[j].amount

ValidBidSet == {i \in 1..Len(current_bids) : current_bids[i].result # "invalid"}

\* C14: end_auction_round gives the item to the player of a highest valid
\* bid: that player's cash goes down by the amount (one float subtraction),
\* the item joins their inventory, item_costs records the amount, and nobody
\* else's cash, inventory or item_costs changes; without a valid bid nothing
\* of these changes and the result has no winner.
C14_SettlementAwardsHighestValidBid ==
    [][SettleStep =>
          LET res == round_results'[Len(round_results')]
          IN  /\ Len(round_results') = Len(round_results) + 1
              /\ res.round_num = game_round /\ res.item = current_item
              /\ IF ValidBidSet = {}
                 THEN /\ res.winner = None
                      /\ UNCHANGED <<cash, items, item_costs>>
                 ELSE \E i \in ValidBidSet :
                        LET w == current_bids[i].player_id
                            a == current_bids[i].amount
                        IN  /\ \A j \in ValidBidSet : current_bids[j].amount <= a
                            /\ res.winner = w /\ res.winning_bid = a
                            /\ cash'[w] = fsub(cash[w], a)
                            /\ items'[w] = Append(items[w], current_item)
                            /\ DOMAIN item_costs'[w]
                                  = DOMAIN item_costs[w] \cup {current_item.item_id}
                            /\ item_costs'[w][current_item.item_id] = a
                            /\ \A k \in DOMAIN item_costs[w] \ {current_item.item_id} :
                                  item_costs'[w][k] = item_costs[w][k]
                            /\ \A q \in AllPlayers \ {w} :
                                  /\ cash'[q] = cash[q]
                                  /\ items'[q] = items[q]
                                  /\ item_costs'[q] = item_costs[q]]_vars

\* A round with two valid bids was settled for the higher one, and the
\* winner, who had won the round before as well, holds two items.
C14_Witness ==
    /\ tpc = "settled"
    /\ game_round = 2
    /\ Cardinality(ValidBidSet) >= 2
    /\ \E i \in ValidBidSet :
          /\ \E j \in ValidBidSet : current_bids[j].amount < current_bids[i].amount
          /\ LastResult.winner = current_bids[i].player_id
          /\ LastResult.winning_bid = current_bids[i].amount
          /\ Len(items[current_bids[i].player_id]) = 2

\* Right after a settlement every player without cash is bankrupt and out.
MarkedAfterSettlement ==
    SettleStep =>
        \A p \in Registered :
            cash'[p] <= 0 => (is_bankrupt'[p] /\ ~is_active'[p])

\* A bankrupt player stays bankrupt and inactive, is none of the active
\* players, and a submit_bid call for them raises and records no bid.
BankruptcyTerminal ==
    /\ \A p \in Registered :
          is_bankrupt[p] =>
              /\ is_bankrupt'[p] /\ ~is_active'[p]
              /\ p \notin {q \in Registered : is_active'[q] /\ ~is_bankrupt'[q]}
    /\ (SubmitStep /\ is_bankrupt[tcall'.from]) =>
          (~tcall'.ok /\ current_bids' = current_bids)

\* C15: bankruptcy is immediate and terminal: right after a round settles,
\* every player whose cash is <= 0 is bankrupt and inactive; a bankrupt
\* player never becomes active again, is never among the active players and
\* cannot submit a bid in a later round.
C15_BankruptcyImmediateAndTerminal ==
    [][MarkedAfterSettlement /\ BankruptcyTerminal]_vars

\* A bankrupt player was asked for a bid in the round after their
\* bankruptcy, and the call raised.
BankruptBidRejected ==
    /\ tcall.op = "submit_bid"
    /\ ~tcall.ok
    /\ is_bankrupt[tcall.from]
    /\ bankrupt_round[tcall.from] < game_round

Holds(p, item_id) == \E j \in 1..Len(items[p]) : items[p][j].item_id = item_id

HoldsAfter(p, item_id) == \E j \in 1..Len(items'[p]) : items'[p][j].item_id = item_id

HoldingsUnchanged == cash' = cash /\ items' = items /\ item_costs' = item_costs

\* A trade that returned true moved every item the offer names to the other
\* player.
AppliedWhole ==
    (TradeStep /\ tcall'.ok) =>
        LET o == tcall'.offer
        IN  /\ o.offer_item_id # NoItemId =>
                  (HoldsAfter(tcall'.to, o.offer_item_id)
                       /\ ~HoldsAfter(tcall'.from, o.offer_item_id))
            /\ o.request_item_id # NoItemId =>
                  (HoldsAfter(tcall'.from, o.request_item_id)
                       /\ ~HoldsAfter(tcall'.to, o.request_item_id))

\* A trade that returned false changed nothing.
RefusedChangesNothing == (TradeStep /\ ~tcall'.ok) => HoldingsUnchanged

\* An offer naming an item its owner does not hold changes nothing.
MissingItemChangesNothing ==
    (/\ TradeStep
     /\ \/ tcall'.offer.offer_item_id # NoItemId
              /\ ~Holds(tcall'.from, tcall'.offer.offer_item_id)
        \/ tcall'.offer.request_item_id # NoItemId
              /\ ~Holds(tcall'.to, tcall'.offer.request_item_id))
        => (~tcall'.ok /\ HoldingsUnchanged)

\* An offer with a cash amount its payer cannot afford changes nothing.
UnaffordableChangesNothing ==
    (/\ TradeStep
     /\ \/ tcall'.offer.cash_offer > cash[tcall'.from]
        \/ tcall'.offer.cash_request > cash[tcall'.to])
        => (~tcall'.ok /\ HoldingsUnchanged)

\* C16: execute_trade is atomic: it either applies the whole offer (the
\* offered item, the requested item and both cash amounts all move) and
\* returns true, or returns false and leaves both players' inventories,
\* item_costs and cash unchanged; in particular an offer that names an item
\* its stated owner does not hold, or a cash amount its payer cannot afford,
\* changes nothing.
C16_ExecuteTradeAtomic ==
    [][/\ AppliedWhole
       /\ RefusedChangesNothing
       /\ MissingItemChangesNothing
       /\ UnaffordableChangesNothing]_vars

ItemIds(l) == {l[j].item_id : j \in 1..Len(l)}

ItemSet(l) == {l[j] : j \in 1..Len(l)}

\* The step is the second half of an away-and-back pair: the call before it
\* was a trade that went through and moved the item it offered (every item
\* it names was held by its owner), and this call is the reverse trade, the
\* same offer with the two players exchanged, and goes through as well.
RoundTripStep ==
    /\ TradeStep
    /\ tcall.op = "execute_trade" /\ tcall.ok
    /\ tcall.offer.offer_item_id # NoItemId
    /\ tcall.offer.offer_item_id \in ItemIds(tcall.pre.items[tcall.from])
    /\ tcall.offer.request_item_id # NoItemId =>
          tcall.offer.request_item_id \in ItemIds(tcall.pre.items[tcall.to])
    /\ tcall'.ok
    /\ tcall'.from = tcall.to /\ tcall'.to = tcall.from
    /\ tcall'.offer = tcall.offer

InventoriesRestored ==
    RoundTripStep =>
        /\ \A p \in Registered : ItemSet(items'[p]) = ItemSet(tcall.pre.items[p])
        /\ item_costs' = tcall.pre.item_costs

CashRestored == RoundTripStep => cash' = tcall.pre.cash

\* C17: executing a trade that moves an item (with any cash amounts) from
\* player A to player B and then the reverse trade that moves the same item
\* and the same cash back restores both players' inventories (as sets of
\* items), their item_costs and their cash balances to the pre-trade values
\* exactly.
C17_TradeRoundTripRestores == [][InventoriesRestored /\ CashRestored]_vars

StillPlaying == {p \in Registered : is_active[p] /\ ~is_bankrupt[p]}

\* C18: next_round ends the game (phase GameOver, returns false, round
\* counter unchanged) exactly when at most one active non-bankrupt player
\* remains or current_round has reached total_rounds; otherwise it
\* increments current_round by exactly one, draws a new current item and
\* clears the current bid list.
C18_NextRoundEndsOrAdvances ==
    [][NextRoundStep =>
          IF Cardinality(StillPlaying) <= 1 \/ ~(game_round < total_rounds)
          THEN /\ phase' = "game_over"
               /\ tcall'.op = "next_round" /\ ~tcall'.ok
               /\ game_round' = game_round
          ELSE /\ phase' = phase /\ phase' # "game_over"
               /\ tcall'.op = "next_round" /\ tcall'.ok
               /\ game_round' = game_round + 1
               /\ current_item' # current_item
               /\ current_item'.item_id = game_round + 1
               /\ \E d \in ItemPool :
                     /\ current_item'.estimate_high = d.estimate_high
                     /\ current_item'.true_value = d.true_value
               /\ current_bids' = <<>>]_vars

\* The game ended before the round limit, because a bankruptcy left one
\* player.
C18_Witness ==
    /\ tcall.op = "next_round" /\ ~tcall.ok
    /\ phase = "game_over"
    /\ game_round < total_rounds
    /\ \E p \in Registered : is_bankrupt[p]

RECURSIVE TrueValueOfFirst(_, _)
\* The true values of the first n items of l, added up from the left.
TrueValueOfFirst(l, n) ==
    IF n = 0 THEN 0 ELSE fadd(TrueValueOfFirst(l, n - 1), l[n].true_value)

Score(p) == fadd(cash[p], TrueValueOfFirst(items[p], Len(items[p])))

RecordedCost(p, item_id) ==
    IF item_id \in DOMAIN item_costs[p] THEN item_costs[p][item_id] ELSE 0

\* C19: at game end each player's score is cash plus the sum of the true
\* values of the items they hold, per-item profit is true value minus the
\* recorded acquisition cost, and the revealed leaderboard lists all players
\* in non-increasing score order with the reported winner being a player of
\* maximum score.
C19_FinalResultsRevealScores ==
    tpc = "done" =>
        LET lb == final_results.leaderboard
        IN  /\ Len(lb) = Len(players)
            /\ {lb[i][1] : i \in 1..Len(lb)} = Registered
            /\ \A i \in 1..Len(lb) : lb[i][2] = Score(lb[i][1])
            /\ \A i, j \in 1..Len(lb) : i < j => lb[i][2] >= lb[j][2]
            /\ final_results.winner \in Registered
            /\ \A p \in Registered : Score(final_results.winner) >= Score(p)
            /\ \A p \in Registered :
                  /\ Len(final_results.profit[p]) = Len(items[p])
                  /\ \A j \in 1..Len(items[p]) :
                        final_results.profit[p][j]
                            = fsub(items[p][j].true_value,
                                   RecordedCost(p, items[p][j].item_id))

\* A finished game whose winner is not the player with the most cash and
\* not the first registered: the items decided the ranking.
C19_Witness ==
    /\ tpc = "done"
    /\ final_results.winner # players[1]
    /\ \E p \in Registered : cash[p] > cash[final_results.winner]
    /\ items[final_results.winner] # <<>>
    /\ \E p \in Registered :
          \E j \in 1..Len(items[p]) : final_results.profit[p][j] < 0

StartGameStep == tpc = "lobby" /\ tcall' # tcall /\ tcall'.op = "start_game"

\* C20: start_game with fewer than two registered players fails with an
\* error and leaves the game state untouched: the phase stays Lobby,
\* current_round stays 0 and no round item is generated.
C20_StartGameNeedsTwoPlayers ==
    [][(StartGameStep /\ Len(players) < 2) =>
          /\ ~tcall'.ok
          /\ phase = "lobby" /\ phase' = "lobby"
          /\ game_round = 0 /\ game_round' = 0
          /\ current_item' = NoItem
          /\ current_bids' = <<>>
          /\ round_results' = <<>>
          /\ players' = players
          /\ <<cash, items, item_costs, is_active, is_bankrupt>>'
                = <<cash, items, item_costs, is_active, is_bankrupt>>]_vars

\* start_game was refused in a lobby with one registered player.
C20_Witness ==
    /\ tcall.op = "start_game" /\ ~tcall.ok
    /\ Len(players) = 1
    /\ phase = "lobby" /\ game_round = 0 /\ current_item = NoItem

-----------------------------------------------------------------------------
(***************************************************************************)
(* PAYMENT OPTIONS: PROPERTIES                                             *)
(***************************************************************************)

\* The step on which get_payment_options returns its list.
OptionsStep == vcall' # vcall /\ vcall'.op = "get_payment_options"

OptionTokens(options) == {options[i].token : i \in 1..Len(options)}

\* The tokens of the wallet's balances.
HeldTokens == {WalletTokens[i] : i \in 1..Len(WalletTokens)}

\* The option's amounts are those of the claim: required is amount_usd at
\* the rate, the fee is the token's fee percent of it.
AmountsOf(o, amount_usd, rates) ==
    /\ o.rate = rates[o.token]
    /\ o.required_amount * o.rate = amount_usd * UNIT * FINE
    /\ o.fee_amount * UNIT = o.required_amount * TOKEN_FEES(o.token)

UsdCost(o) == o.total_amount * o.rate

\* C22: in every list returned by get_payment_options the first affordable
\* entry has the minimum USD cost (required + fee) * rate among all
\* affordable entries.
C22_FirstAffordableIsCheapest ==
    vcall.op = "get_payment_options" =>
        LET affordable == SelectSeq(vcall.options, LAMBDA o : o.is_affordable)
        IN  \A j \in 1..Len(affordable) :
               UsdCost(affordable[1]) <= UsdCost(affordable[j])

\* The step on which validate_payment returns its verdict.
ValidatePaymentStep == vcall' # vcall /\ vcall'.op = "validate_payment"

Emits(verdict, type) ==
    \/ \E i \in 1..Len(verdict.errors) : verdict.errors[i] = type
    \/ \E i \in 1..Len(verdict.warnings) : verdict.warnings[i] = type

\* The options the wallet has for the validated payment.
OptionsAtCall == get_payment_options(Buyer, vcall'.amount_usd, vcall'.rates)

\* The chosen token is the wallet's first affordable option.
ChoseOptimal ==
    LET affordable == SelectSeq(OptionsAtCall, LAMBDA o : o.is_affordable)
    IN  affordable # <<>> /\ affordable[1].token = vcall'.token

\* Another affordable token has the same rate and a lower fee percent.
ChoseDominated ==
    \E i \in 1..Len(OptionsAtCall) :
       /\ OptionsAtCall[i].is_affordable
       /\ OptionsAtCall[i].token # vcall'.token
       /\ OptionsAtCall[i].rate = vcall'.rates[vcall'.token]
       /\ OptionsAtCall[i].fee_percent < TOKEN_FEES(vcall'.token)

\* validate_payment never emits SUBOPTIMAL_TOKEN for the first affordable
\* option.
OptimalNeverFlagged ==
    [][(ValidatePaymentStep /\ ChoseOptimal)
          => ~Emits(vcall'.verdict, "SUBOPTIMAL_TOKEN")]_vars

\* C23: validate_payment never emits SUBOPTIMAL_TOKEN when the chosen token
\* is the wallet's optimal (first affordable) payment option, and always
\* emits it when the chosen token is strictly dominated, i.e. another
\* affordable token has the same rate and a lower fee percent.
C23_SuboptimalTokenFlagged ==
    [][ValidatePaymentStep =>
          /\ ChoseOptimal => ~Emits(vcall'.verdict, "SUBOPTIMAL_TOKEN")
          /\ ChoseDominated => Emits(vcall'.verdict, "SUBOPTIMAL_TOKEN")]_vars

\* The step on which validate_counter_offer returns its verdict.
ValidateCounterStep == vcall' # vcall /\ vcall'.op = "validate_counter_offer"

\* C24: validate_counter_offer with is_seller=true yields an
\* ILLOGICAL_COUNTER error (valid=false) iff counter < original and never
\* when counter >= original; with is_seller=false it yields a
\* NO_IMPROVEMENT warning iff counter <= original and the result is still
\* valid=true.
C24_CounterOfferVerdict ==
    [][ValidateCounterStep =>
          LET counter  == vcall'.amount
              original == vcall'.amount_usd
              verdict  == vcall'.verdict
          IN  IF vcall'.is_seller
              THEN /\ counter < original
                         => verdict.errors = <<"ILLOGICAL_COUNTER">> /\ ~verdict.valid
                   /\ counter >= original => verdict.errors = <<>> /\ verdict.valid
                   /\ verdict.warnings = <<>>
              ELSE /\ counter <= original
                         <=> verdict.warnings = <<"NO_IMPROVEMENT">>
                   /\ counter > original => verdict.warnings = <<>>
                   /\ verdict.errors = <<>> /\ verdict.valid]_vars

\* A seller's counter below the bid was refused, and was recorded by the
\* validator.
C24_Witness ==
    /\ vcall.op = "validate_counter_offer"
    /\ vcall.is_seller /\ vcall.amount < vcall.amount_usd
    /\ ~vcall.verdict.valid
    /\ detected_errors = <<"ILLOGICAL_COUNTER">>

\* The step on which get_best_payment_option returns.
BestOptionStep == vcall' # vcall /\ vcall'.op = "get_best_payment_option"

\* The wallet and the question of the example: 0.05 ETH and 500 USDC, ETH at
\* 2000 and USDC at 1, a target of 100 USD.
ExampleWallet ==
    /\ balances[Buyer] = [ETH |-> UNIT \div 20, USDC |-> 500 * UNIT, USDT |-> 0]
    /\ vcall'.rates = [ETH |-> 2000, USDC |-> 1, USDT |-> 1]
    /\ vcall'.amount_usd = 100

\* C25: get_best_payment_option returns the first affordable option of
\* get_payment_options, or none when no token is affordable; a token whose
\* balance equals exactly the pre-fee requirement is unaffordable because
\* the fee pushes the total above the balance (wallet {ETH: 0.05, USDC: 500},
\* rates {ETH: 2000, USDC: 1}, target 100 USD gives USDC).
C25_BestIsFirstAffordable ==
    [][BestOptionStep =>
          LET options == vcall'.options
              best    == vcall'.best
          IN  /\ options = get_payment_options(Buyer, vcall'.amount_usd, vcall'.rates)
              /\ (best = NoOption)
                    <=> \A i \in 1..Len(options) : ~options[i].is_affordable
              /\ best # NoOption =>
                    \E i \in 1..Len(options) :
                       /\ options[i] = best
                       /\ best.is_affordable
                       /\ \A j \in 1..(i - 1) : ~options[j].is_affordable
              /\ \A i \in 1..Len(options) :
                    options[i].balance = options[i].required_amount
                       => ~options[i].is_affordable /\ best # options[i]
              /\ ExampleWallet => best.token = "USDC"]_vars

\* The example's answer: USDC is the best option while the ETH option,
\* whose requirement is exactly the balance, is listed as unaffordable.
C25_Witness ==
    /\ vcall.op = "get_best_payment_option"
    /\ vcall.amount_usd = 100
    /\ vcall.best.token = "USDC"
    /\ \E i \in 1..Len(vcall.options) :
          /\ vcall.options[i].token = "ETH"
          /\ vcall.options[i].balance = vcall.options[i].required_amount
          /\ vcall.options[i].balance = (UNIT \div 20) * FINE
          /\ ~vcall.options[i].is_affordable

-----------------------------------------------------------------------------
(***************************************************************************)
(* DECISION PORT: PROPERTIES                                               *)
(***************************************************************************)

\* The step on which an agent hands a decision back to its caller.
DecisionStep(op) == dcall' # dcall /\ dcall'.op = op

\* The call of the model failed: it raised, or its output holds no JSON
\* object.
CallFailed == dcall'.reply \in {"raises", "unparseable"}

\* What the fallback policy may decide for the inputs of the decision.
FallbackDecides ==
    CASE dcall'.op = "respond_to_bid" ->
            dcall'.answer = fallback_respond_to_bid(dcall'.amount, dcall'.other)
      [] dcall'.op = "make_bid" ->
            dcall'.answer \in fallback_make_bid(dcall'.amount, dcall'.other)
      [] dcall'.op = "respond_to_counter" ->
            dcall'.answer \in fallback_respond_to_counter(dcall'.amount, dcall'.other,
                                                          max_budget[BuyerAgent])
      [] dcall'.op = "create_payment_intent" ->
            dcall'.intent
               = fallback_payment_intent(dcall'.amount, Seller,
                                         intent_options(Buyer, dcall'.amount,
                                                        dcall'.rates, 1))
      [] OTHER -> TRUE

\* A call of the model that raises is answered by the fallback policy.
RaisingCallFallsBack ==
    [][(dcall' # dcall /\ dcall'.reply = "raises") => FallbackDecides]_vars

\* C26: whenever a Decision Port call (propose bid, respond to bid, respond
\* to counter, create payment intent) fails, either by raising or by
\* returning malformed / unparseable output, the caller obtains exactly the
\* decision the fallback policy gives for the same inputs.
C26_FailedCallFallsBack ==
    [][(dcall' # dcall /\ CallFailed) => FallbackDecides]_vars

\* The fallback policy answered the seller's respond_to_bid: there is no
\* model, or its call raised.
FallbackSellerStep ==
    /\ DecisionStep("respond_to_bid")
    /\ dcall'.reply \in {"no_llm", "raises"}

\* C27: the fallback seller accepts iff bid >= reserve, counters with a
\* counter amount exactly equal to the reserve iff
\* 0.9 * reserve <= bid < reserve, and rejects otherwise.
C27_FallbackSellerPolicy ==
    [][FallbackSellerStep =>
          LET bid     == dcall'.amount
              reserve == dcall'.other
              answer  == dcall'.answer
          IN  /\ answer.action \in {"accept", "counter", "reject"}
              /\ answer.action = "accept" <=> bid >= reserve
              /\ answer.action = "counter"
                    <=> (9 * reserve <= 10 * bid /\ bid < reserve)
              /\ answer.action = "counter" => answer.amount = reserve
              /\ answer.action = "reject" <=> 10 * bid < 9 * reserve]_vars

\* The fallback seller countered at the reserve a bid of exactly nine tenths
\* of it, after the call of the model raised.
C27_Witness ==
    /\ dcall.op = "respond_to_bid" /\ dcall.reply = "raises"
    /\ 10 * dcall.amount = 9 * dcall.other
    /\ dcall.answer = [action |-> "counter", amount |-> dcall.other]

\* The fallback policy made the payment intent: there is no model, or its
\* call raised.
FallbackIntentStep ==
    /\ DecisionStep("create_payment_intent")
    /\ dcall'.reply \in {"no_llm", "raises"}

\* The tokens the wallet can afford for the amount of the intent, fee
\* included.
AffordableAtCall ==
    {t \in HeldTokens :
        /\ balances[Buyer][t] > 0
        /\ dcall'.rates[t] > 0
        /\ PaymentOption(Buyer, t, dcall'.amount, dcall'.rates[t]).is_affordable}

\* C28: the fallback payment intent picks, among the tokens the wallet can
\* afford for the amount, the one with the lowest fee percent; when no
\* token is affordable it reports an insufficient-balance style failure
\* instead of a payable intent.
C28_FallbackIntentCheapestToken ==
    [][FallbackIntentStep =>
          IF AffordableAtCall # {}
          THEN /\ dcall'.intent.token \in AffordableAtCall
               /\ \A t \in AffordableAtCall :
                     TOKEN_FEES(dcall'.intent.token) <= TOKEN_FEES(t)
          ELSE dcall'.intent.reasoning = "insufficient_balance"]_vars

-----------------------------------------------------------------------------
(***************************************************************************)
(* INTENT VALIDATION: PROPERTIES                                           *)
(***************************************************************************)

ErrorTypes ==
    {"INSUFFICIENT_BALANCE", "OVER_BUDGET", "CALCULATION_ERROR", "BID_TOO_LOW"}

\* What remains of the budget: budget_limit minus spent_total, floored at 0.
RemainingAtCall ==
    IF budget_limit[Buyer] > spent_total[Buyer]
    THEN budget_limit[Buyer] - spent_total[Buyer] ELSE 0

\* The check behind an error type is violated by the validated payment.
CheckViolated(type) ==
    LET token      == vcall'.token
        amount     == vcall'.amount
        amount_usd == vcall'.amount_usd
        usd_fine   == amount_usd * UNIT * FINE
    IN  CASE type = "INSUFFICIENT_BALANCE" ->
                balances[Buyer][token] * FINE - amount
                   < (amount * TOKEN_FEES(token)) \div UNIT
          [] type = "OVER_BUDGET" ->
                budget_limit[Buyer] # Infinity /\ amount_usd * UNIT > RemainingAtCall
          [] type = "CALCULATION_ERROR" ->
                IF vcall'.rate > 0
                THEN 20 * abs(amount * vcall'.rate - usd_fine) > usd_fine
                ELSE amount > 0
          [] type = "BID_TOO_LOW" ->
                vcall'.min_bid > 0 /\ amount_usd < vcall'.min_bid

\* C29: validate_payment evaluates all its checks on every call without
\* short-circuiting: the returned error list has one entry for each violated
\* check (for example both INSUFFICIENT_BALANCE and OVER_BUDGET when both
\* are violated), and valid is true iff the error list is empty, whatever
\* warnings were emitted.
C29_AllChecksEvaluated ==
    [][ValidatePaymentStep =>
          LET errors == vcall'.verdict.errors
          IN  /\ \A type \in ErrorTypes :
                    Cardinality({i \in 1..Len(errors) : errors[i] = type})
                       = IF CheckViolated(type) THEN 1 ELSE 0
              /\ \A i \in 1..Len(errors) : errors[i] \in ErrorTypes
              /\ vcall'.verdict.valid <=> errors = <<>>
              /\ detected_errors' = detected_errors \o errors
              /\ detected_warnings' = detected_warnings \o vcall'.verdict.warnings]_vars

\* A verdict that names every violated check: the balance, the budget, the
\* conversion and the minimum bid all at once.
C29_Witness ==
    /\ vcall.op = "validate_payment"
    /\ vcall.verdict.errors
          = <<"INSUFFICIENT_BALANCE", "OVER_BUDGET", "CALCULATION_ERROR",
              "BID_TOO_LOW">>
    /\ ~vcall.verdict.valid

\* C30: for a wallet that declares a budget, validate_payment emits
\* OVER_BUDGET iff amount_usd exceeds the remaining budget (budget_limit
\* minus spent_total, floored at 0) and NEAR_BUDGET_LIMIT iff amount_usd is
\* above 90% of the remaining budget but not above it; the two are never
\* emitted together, and neither is emitted for a wallet without a budget.
C30_BudgetVerdict ==
    [][ValidatePaymentStep =>
          LET amount == vcall'.amount_usd * UNIT
              over   == \E i \in 1..Len(vcall'.verdict.errors) :
                           vcall'.verdict.errors[i] = "OVER_BUDGET"
              near   == \E i \in 1..Len(vcall'.verdict.warnings) :
                           vcall'.verdict.warnings[i] = "NEAR_BUDGET_LIMIT"
          IN  IF budget_limit[Buyer] # Infinity
              THEN /\ over <=> amount > RemainingAtCall
                   /\ near <=> (10 * amount > 9 * RemainingAtCall
                                   /\ amount <= RemainingAtCall)
                   /\ ~(over /\ near)
              ELSE ~over /\ ~near]_vars

\* A payment within the wallet's budget limit was found over budget because
\* of what the wallet had spent before.
C30_Witness ==
    /\ vcall.op = "validate_payment"
    /\ budget_limit[Buyer] # Infinity
    /\ spent_total[Buyer] > 0
    /\ vcall.amount_usd * UNIT <= budget_limit[Buyer]
    /\ vcall.amount_usd * UNIT > budget_limit[Buyer] - spent_total[Buyer]
    /\ \E i \in 1..Len(vcall.verdict.errors) : vcall.verdict.errors[i] = "OVER_BUDGET"

-----------------------------------------------------------------------------
(***************************************************************************)
(* AUCTION ENGINE: FURTHER PROPERTIES                                      *)
(***************************************************************************)

\* A buyer answers the seller's counter with a re-bid.
BuyerRebids ==
    pc \in {"buyer", "buyer_cont"} /\ Answers(BuyerNames, "counter")

\* C31: AuctionState.bids is append-only over a whole auction: no bid record
\* is ever removed and no recorded bid's bidder or amount is ever changed; a
\* buyer's counter re-bid is added as a new record carrying the new amount
\* while the earlier bid keeps its original amount.
C31_BidsAppendOnly ==
    [][/\ Len(bids') \in {Len(bids), Len(bids) + 1}
       /\ \A i \in 1..Len(bids) :
             /\ bids'[i].bidder = bids[i].bidder
             /\ bids'[i].amount = bids[i].amount
       /\ BuyerRebids =>
             /\ Len(bids') = Len(bids) + 1
             /\ bids'[Len(bids')].bidder = bids[active_bid].bidder
             /\ bids'[Len(bids')].amount
                   = negotiation_history'[Len(negotiation_history')].amount
             /\ bids'[active_bid].amount = bids[active_bid].amount]_vars

\* A re-bid stands at the end of the bids as a record of its own, with
\* another amount than the countered bid of the same buyer before it.
C31_Witness ==
    /\ pc = "cont"
    /\ active_bid = Len(bids)
    /\ \E k \in 1..(Len(bids) - 1) :
          /\ bids[k].bidder = bids[active_bid].bidder
          /\ bids[k].status = "countered"
          /\ bids[k].amount # bids[active_bid].amount

\* The place of a buyer in the buyer list.
PlaceOf(name) == CHOOSE i \in 1..Len(buyers) : buyers[i] = name

\* The bids collected so far in this round are of buyers already asked, in
\* the order of the buyer list, one per buyer at most, and stand in the
\* history in that order.
CollectedInOrder ==
    /\ \A k \in 1..Len(round_bids) :
          /\ round_bids[k] \in 1..Len(bids)
          /\ bids[round_bids[k]].bidder \in BuyerNames
          /\ PlaceOf(bids[round_bids[k]].bidder) < buyer_idx
    /\ \A k, l \in 1..Len(round_bids) :
          k < l =>
             /\ round_bids[k] < round_bids[l]
             /\ PlaceOf(bids[round_bids[k]].bidder)
                   < PlaceOf(bids[round_bids[l]].bidder)

\* C32: in each round's bid collection every buyer is consulted exactly
\* once, one at a time in buyer-list order, each decision being recorded
\* before the next buyer is asked; at most one bid per buyer is recorded by
\* bid collection in a round, and the bids appear in the history in that
\* order.
C32_BuyersAskedOnceInOrder ==
    /\ [](pc = "collect" => (buyer_idx \in 1..(Len(buyers) + 1) /\ CollectedInOrder))
    /\ [][/\ (pc = "loop" /\ pc' = "collect")
             => (buyer_idx' = 1 /\ round_bids' = <<>> /\ bids' = bids)
          /\ (pc = "collect" /\ pc' = "collect")
             => /\ buyer_idx <= Len(buyers)
                /\ buyer_idx' = buyer_idx + 1
                /\ \/ bids' = bids /\ round_bids' = round_bids
                   \/ /\ Len(bids') = Len(bids) + 1
                      /\ bids'[Len(bids')].bidder = buyers[buyer_idx]
                      /\ SubSeq(bids', 1, Len(bids)) = bids
                      /\ round_bids' = Append(round_bids, Len(bids'))
          /\ (pc = "collect" /\ pc' # "collect")
             => (buyer_idx = Len(buyers) + 1 /\ bids' = bids)]_vars

\* All three buyers of a round have been asked: the first and the third
\* bid, the second abstained.
C32_Witness ==
    /\ pc = "collect"
    /\ Len(buyers) = 3 /\ buyer_idx = 4
    /\ Len(round_bids) = 2
    /\ bids[round_bids[1]].bidder = buyers[1]
    /\ bids[round_bids[2]].bidder = buyers[3]

-----------------------------------------------------------------------------
(***************************************************************************)
(* TOURNAMENT ENGINE: CALLS IN ANY ORDER                                   *)
(***************************************************************************)

\* C33: whatever the order of the add_player, start_game, submit_bid,
\* end_auction_round, next_round and execute_trade calls, no player's cash
\* is ever negative.
C33_CashNeverNegative == \A p \in Registered : cash[p] >= 0

\* The number of times the item with this id lies in the inventory l.
Copies(l, item_id) == Cardinality({j \in 1..Len(l) : l[j].item_id = item_id})

\* The ids of the items the rounds so far have drawn.
DrawnItemIds == 1..MaxTotalRounds

\* C34: after any sequence of end_auction_round, next_round and
\* execute_trade calls an item lies in at most one inventory, at most once
\* there, and a player has a recorded cost only for items the player holds.
C34_ItemsHeldOnce ==
    /\ \A k \in DrawnItemIds :
          /\ \A p \in Registered : Copies(items[p], k) <= 1
          /\ \A p, q \in Registered :
                p # q => ~(Copies(items[p], k) > 0 /\ Copies(items[q], k) > 0)
    /\ \A p \in Registered :
          \A k \in DOMAIN item_costs[p] : Copies(items[p], k) > 0

\* The bids of the current round that _validate_bid found no error in.
ErrorFreeBids == {i \in 1..Len(current_bids) : current_bids[i].intent_errors = {}}

\* The highest of the valid bids, the earliest among equals.
HighestValid(i) ==
    /\ i \in ErrorFreeBids
    /\ \A j \in ErrorFreeBids :
          /\ current_bids[j].amount <= current_bids[i].amount
          /\ current_bids[j].amount = current_bids[i].amount => i <= j

\* C35: after every submit_bid the bids with errors are Invalid, and if the
\* round has a valid bid, the highest valid bid (the earliest among equals)
\* is the one bid marked Winning and every other valid bid is Outbid.
C35_OneWinningBid ==
    \A i \in 1..Len(current_bids) :
       current_bids[i].result =
          IF i \notin ErrorFreeBids THEN "invalid"
          ELSE IF HighestValid(i) THEN "winning" ELSE "outbid"

C35_Witness ==
    /\ tcall.op = "submit_bid"
    /\ Len(current_bids) = 3
    /\ current_bids[1].result = "invalid"
    /\ current_bids[2].result = "winning"
    /\ current_bids[3].result = "outbid"
    /\ current_bids[2].amount = current_bids[3].amount

-----------------------------------------------------------------------------
(***************************************************************************)
(* FALLBACK POLICIES: FURTHER PROPERTIES                                   *)
(***************************************************************************)

-----------------------------------------------------------------------------
(***************************************************************************)
(* AUCTION ENGINE: SALES, COUNTERS AND TERMINATION                         *)
(***************************************************************************)

\* C37: the status is Sold exactly when winner and final_price are set, and
\* the winner is the bidder of the bid under negotiation when the sale was
\* made, who is one of the registered buyers.
C37_SoldIffWinnerAndPrice ==
    /\ status = "sold" <=> (winner # None /\ final_price # NoPrice)
    /\ winner # None <=> final_price # NoPrice
    /\ status = "sold" =>
          /\ active_bid \in 1..Len(bids)
          /\ winner = bids[active_bid].bidder
          /\ winner \in BuyerNames

\* A sale to the second of three buyers, whose bid was not the last one
\* collected.
C37_Witness ==
    /\ status = "sold"
    /\ Len(buyers) = 3
    /\ winner = buyers[2]
    /\ Len(bids) = 3
    /\ active_bid = 2

\* C38: when the seller has countered the round's active bid, the buyer
\* consulted is that bid's bidder and the original bid the buyer is handed
\* is the amount of the active bid, whatever else was collected in the
\* round.
C38_BuyerHandedActiveBid ==
    []( pc \in {"buyer", "buyer_cont"} =>
          /\ active_bid \in 1..Len(bids)
          /\ original_bid = bids[active_bid].amount )
    /\ [][ (pc \in {"buyer", "buyer_cont"}
            /\ Len(negotiation_history') = Len(negotiation_history) + 1) =>
           negotiation_history'[Len(negotiation_history')].from_agent
              = bids[active_bid].bidder ]_vars

\* The transcript entries of round r.
RoundEntries(r) ==
    {i \in 1..Len(negotiation_history) : negotiation_history[i].round_number = r}

\* C39: run_auction terminates whatever the seller and the buyers decide.
\* It runs at most max_rounds rounds and current_round never exceeds
\* max_rounds; a round asks each buyer once and has a bounded number of
\* negotiation exchanges; process_payment is invoked at most once, and only
\* when the status is Sold.
C39_RunAuctionTerminates ==
    /\ <>(pc = "done")
    /\ [](current_round <= max_rounds)
    /\ [](pc = "collect" => buyer_idx \in 1..(Len(buyers) + 1))
    /\ [](\A r \in 1..max_rounds :
             Cardinality(RoundEntries(r)) <= 2 * (1 + MaxDepth))
    /\ [](payments <= 1 /\ (payments = 1 => status = "sold"))
    /\ [][ /\ current_round' \in {current_round, current_round + 1}
           /\ payments' # payments => (payments = 0 /\ status = "sold")
           /\ pc = "done" => UNCHANGED auctionVars ]_vars

\* A run that has returned after max_rounds rounds, the last of them with
\* every exchange the depth limit allows, and without a sale or a payment.
C39_Witness ==
    /\ pc = "done"
    /\ current_round = max_rounds
    /\ max_rounds = MaxRounds
    /\ Cardinality(RoundEntries(current_round)) = 2 * (1 + MaxDepth)
    /\ status # "sold"
    /\ payments = 0

-----------------------------------------------------------------------------
(***************************************************************************)
(* TOURNAMENT ENGINE: TERMINATION                                          *)
(***************************************************************************)

\* A next_round call made when the phase is GameOver already.
FurtherNextRound ==
    /\ phase = "game_over"
    /\ tcall' # tcall
    /\ tcall'.op = "next_round"

\* C40: a started tournament driven by end_auction_round and next_round
\* reaches GameOver, after at most total_rounds rounds; the round counter
\* never exceeds total_rounds; and a next_round call after GameOver returns
\* False and changes neither the phase, nor the round counter, nor the
\* current item.
C40_TournamentReachesGameOver ==
    /\ (phase = "auction" ~> phase = "game_over")
    /\ [](game_round <= total_rounds)
    /\ [](Len(round_results) <= total_rounds)
    /\ [][ FurtherNextRound =>
             /\ ~tcall'.ok
             /\ phase' = "game_over"
             /\ game_round' = game_round
             /\ current_item' = current_item ]_vars

\* A game of MaxTotalRounds rounds is over and next_round has been called
\* once more.
C40_Witness ==
    /\ phase = "game_over"
    /\ tcall.op = "next_round"
    /\ tcall.was = "game_over"
    /\ ~tcall.ok
    /\ total_rounds = MaxTotalRounds
    /\ game_round = total_rounds
    /\ Len(round_results) = total_rounds

====
